---- MODULE Spec2Model ----
(***************************************************************************)
(* State-machine model of the DBLive nearest-bus-stop page scripts.        *)
(*                                                                         *)
(* The repository holds several variants of the same page script.  The     *)
(* variants modelled here are named after their files:                     *)
(*   p002 = src/unnamed/part_002   p004 = src/unnamed/part_004             *)
(*   p003 = src/unnamed/part_003   p001 = src/unnamed/part_001             *)
(*   p007 = src/unnamed/part_007   app  = src/app.js   app4 = src/app4.js  *)
(*                                                                         *)
(* Representation choices                                                  *)
(*   - An instant (JS Date / epoch value) is an integer number of seconds  *)
(*     since 1970-01-01T00:00:00Z.  Sub-second parts are not modelled.     *)
(*   - tz is the offset of the browser's local time from UTC in seconds    *)
(*     (local = UTC + tz): 0 for GMT, 3600 for Irish Summer Time.          *)
(*   - A GTFS date string "YYYYMMDD" is the integer YYYYMMDD; comparing    *)
(*     two such 8-digit strings is comparing the integers.                 *)
(*   - A time string "HH:MM:SS" is the tuple <<HH, MM, SS>>.               *)
(*   - The GTFS exception_type strings '1' / '2' are the numbers 1 / 2.    *)
(***************************************************************************)
EXTENDS Integers, Sequences, FiniteSets, TLC

VARIABLES
    pc,               \* position of the page script
    now,              \* the clock read by new Date() / Date.now()
    tz,               \* local-time offset of the browser
    calendar,         \* calendar.txt: service_id -> row
    exRows,           \* calendar_dates.txt: the rows in file order
    trips,            \* trips.txt: trip_id -> service_id
    calLayout,        \* column order / line ending of the fetched CSV files
    validServiceIds,  \* p002: result of loadGTFSMapping
    tripToService,    \* p002: result of loadGTFSMapping
    serviceMap,       \* p004 global serviceMap
    exceptionsMap,    \* p004 global exceptionsMap
    tripsMap,         \* p004 global tripsMap
    dayMap,           \* app: dayMap / p003: serviceMap (service_id -> day names)
    scheduleRows,     \* the per-stop schedule JSON of the stop being rendered
    rtEntities,       \* the realtime feed entities
    rows,             \* the rows computed for the stop
    shown,            \* what the page lists for the stop
    geography,        \* outcome of fetching stops.geojson.gz: the features, or None
    geolocation,      \* outcome of getCurrentPosition: the user's latitude, or None
    rtResponse,       \* outcome of fetching the realtime feed: "ok" or "failed"
    stopJson,         \* outcome of each stop's own fetch: AtcoCode -> rows, or None
    requests,         \* the requests the page has issued, in order
    status,           \* the message the page shows ("" when none)
    cards,            \* the stop entries of the page, in document order
    rejected,         \* an exception escaped the script (unhandled rejection)
    pending,          \* the per-stop callbacks that are still awaiting their fetch
    bearingDeg,       \* a bearing, in hundredths of a degree
    bearingUlps,      \* how many doubles below that value the bearing lies
    compass           \* the compass point shown for the bearing ("" when none)

vars == <<pc, now, tz, calendar, exRows, trips, calLayout, validServiceIds,
          tripToService, serviceMap, exceptionsMap, tripsMap, dayMap,
          scheduleRows, rtEntities, rows, shown, geography, geolocation,
          rtResponse, stopJson, requests, status, cards, rejected, pending,
          bearingDeg, bearingUlps, compass>>

calVars == <<validServiceIds, tripToService, serviceMap, exceptionsMap,
             tripsMap, dayMap, calLayout>>

inputVars == <<now, tz, calendar, exRows, trips, scheduleRows, rtEntities>>

compassVars == <<bearingDeg, bearingUlps, compass>>

pageInputs == <<geography, geolocation, rtResponse, stopJson>>

pageVars == <<pageInputs, requests, status, cards, rejected, pending>>

-----------------------------------------------------------------------------
(* Bounds of the model *)

MaxExRows == 2
MaxRows == 2

-----------------------------------------------------------------------------
(* Values *)

\* Optional values: undefined / null / NaN is None, a present value v is Some(v).
None == <<>>
Some(v) == <<v>>
IsSome(o) == o # <<>>
Get(o) == o[1]

\* The whole-page part of the state while one stop alone is being studied.
NoPage ==
    /\ geography = None
    /\ geolocation = None
    /\ rtResponse = "ok"
    /\ stopJson = <<>>
    /\ requests = <<>>
    /\ status = ""
    /\ cards = <<>>
    /\ rejected = FALSE
    /\ pending = {}
    /\ bearingDeg = 0
    /\ compass = ""
    /\ bearingUlps = 0

\* No CSV file has been fetched yet.
NotFetched == [order |-> "none", trailing_newline |-> FALSE]

SecPerDay == 24 * 60 * 60

Services == {"A", "B"}
TripIds == {"T1", "T2"}

DayColumns == <<"sunday", "monday", "tuesday", "wednesday", "thursday",
                "friday", "saturday">>

-----------------------------------------------------------------------------
(* JS Date arithmetic *)

\* Date.UTC(y, m-1, d) / new Date('YYYY-MM-DD'), in days since the epoch.
DaysFromCivil(y, m, d) ==
    LET yy  == IF m <= 2 THEN y - 1 ELSE y
        era == yy \div 400
        yoe == yy - era * 400
        mp  == (m + 9) % 12
        doy == (153 * mp + 2) \div 5 + d - 1
        doe == yoe * 365 + yoe \div 4 - yoe \div 100 + doy
    IN  era * 146097 + doe - 719468

\* The YYYYMMDD of a day number: toISOString().slice(0,10) without dashes.
CivilFromDays(z) ==
    LET zz  == z + 719468
        era == zz \div 146097
        doe == zz - era * 146097
        yoe == (doe - doe \div 1460 + doe \div 36524 - doe \div 146096) \div 365
        doy == doe - (365 * yoe + yoe \div 4 - yoe \div 100)
        mp  == (5 * doy + 2) \div 153
        d   == doy - (153 * mp + 2) \div 5 + 1
        m   == IF mp < 10 THEN mp + 3 ELSE mp - 9
        y   == yoe + era * 400 + (IF m <= 2 THEN 1 ELSE 0)
    IN  y * 10000 + m * 100 + d

\* date.slice(0,4)+'-'+date.slice(4,6)+'-'+date.slice(6,8) parsed by new Date():
\* midnight UTC of that date, as an instant.
ParseYmd(yyyymmdd) ==
    DaysFromCivil(yyyymmdd \div 10000, (yyyymmdd \div 100) % 100, yyyymmdd % 100)
        * SecPerDay

\* today.toISOString(): the UTC calendar date of an instant, as YYYYMMDD.
IsoDate(t) == CivilFromDays(t \div SecPerDay)

\* The calendar date shown by the browser's local clock, as YYYYMMDD.
LocalDate(t, off) == CivilFromDays((t + off) \div SecPerDay)

\* Date.prototype.getDay(): local weekday, 0 = Sunday (1970-01-01 was a Thursday).
GetDay(t, off) == (((t + off) \div SecPerDay) + 4) % 7

\* Midnight, local time, of the local day of instant t.
LocalMidnight(t, off) == ((t + off) \div SecPerDay) * SecPerDay - off

\* 'HH:MM:SS' as seconds after midnight.
HmsSeconds(hms) == hms[1] * 3600 + hms[2] * 60 + hms[3]


-----------------------------------------------------------------------------
(* Helpers on sequences *)

Range(sq) == {sq[i] : i \in 1..Len(sq)}

IndexOf(sq, x) ==
    IF x \in Range(sq) THEN CHOOSE i \in 1..Len(sq) :
                                sq[i] = x /\ \A j \in 1..(i - 1) : sq[j] # x
    ELSE 0

RemoveAt(sq, i) == SubSeq(sq, 1, i - 1) \o SubSeq(sq, i + 1, Len(sq))

-----------------------------------------------------------------------------
(* calendar.txt / calendar_dates.txt as fetched *)

\* A calendar.txt row whose day columns holding '1' are the getDay numbers in days.
CalRow(days, s, e) ==
    [sunday |-> 0 \in days, monday |-> 1 \in days, tuesday |-> 2 \in days,
     wednesday |-> 3 \in days, thursday |-> 4 \in days, friday |-> 5 \in days,
     saturday |-> 6 \in days, start_date |-> s, end_date |-> e]

\* The last calendar_dates.txt row of (sid, date), 0 when there is none.
LastException(sid, date) ==
    LET hits == {i \in 1..Len(exRows) :
                    exRows[i].service_id = sid /\ exRows[i].date = date}
    IN  IF hits = {} THEN 0
        ELSE exRows[CHOOSE i \in hits : \A j \in hits : j <= i].exception_type

-----------------------------------------------------------------------------
(* p002: loadGTFSMapping *)

\* exceptions[e.service_id][e.date] = parseInt(e.exception_type)
Exceptions002 ==
    [sid \in {exRows[i].service_id : i \in 1..Len(exRows)} |->
        [d \in {exRows[i].date : i \in {j \in 1..Len(exRows) :
                                          exRows[j].service_id = sid}} |->
            LastException(sid, d)]]

\* dates[yyyymmdd], 0 standing for undefined
DatesEntry002(sid, yyyymmdd) ==
    IF sid \in DOMAIN Exceptions002 /\ yyyymmdd \in DOMAIN Exceptions002[sid]
    THEN Exceptions002[sid][yyyymmdd] ELSE 0

\* The set built by "Build set of valid service_ids for today".
ValidServiceIds002 ==
    LET yyyymmdd  == IsoDate(now)
        todayName == DayColumns[GetDay(now, tz) + 1]
        weekly    == {sid \in DOMAIN calendar :
                         /\ yyyymmdd >= calendar[sid].start_date
                         /\ yyyymmdd <= calendar[sid].end_date
                         /\ calendar[sid][todayName]}
        added     == {sid \in DOMAIN Exceptions002 : DatesEntry002(sid, yyyymmdd) = 1}
        removed   == {sid \in DOMAIN Exceptions002 : DatesEntry002(sid, yyyymmdd) = 2}
    IN  (weekly \cup added) \ removed

LoadGTFSMapping002 ==
    /\ pc = "start"
    /\ tripToService' = trips
    /\ validServiceIds' = ValidServiceIds002
    /\ pc' = "p002_loaded"
    /\ UNCHANGED <<pageVars, compassVars, inputVars, serviceMap, exceptionsMap, tripsMap, dayMap,
                   calLayout, rows, shown>>

-----------------------------------------------------------------------------
(* p004: loadGTFSMapping and serviceActiveToday *)

ServiceMap004 ==
    [sid \in DOMAIN calendar |->
        [start |-> ParseYmd(calendar[sid].start_date),
         end   |-> ParseYmd(calendar[sid].end_date),
         weekdays |-> [sun |-> calendar[sid].sunday, mon |-> calendar[sid].monday,
                       tue |-> calendar[sid].tuesday, wed |-> calendar[sid].wednesday,
                       thu |-> calendar[sid].thursday, fri |-> calendar[sid].friday,
                       sat |-> calendar[sid].saturday]]]

\* exceptionsMap[e.service_id+'_'+d] = e.exception_type; the key is the pair.
ExceptionsMap004 ==
    [k \in {<<exRows[i].service_id, exRows[i].date>> : i \in 1..Len(exRows)} |->
        LastException(k[1], k[2])]

LoadGTFSMapping004 ==
    /\ pc = "start"
    /\ tripsMap' = trips
    /\ serviceMap' = ServiceMap004
    /\ exceptionsMap' = ExceptionsMap004
    /\ pc' = "p004_loaded"
    /\ UNCHANGED <<pageVars, compassVars, inputVars, validServiceIds, tripToService, dayMap,
                   calLayout, rows, shown>>

WeekdayNames004 == <<"sun", "mon", "tue", "wed", "thu", "fri", "sat">>

\* serviceActiveToday(service_id); an unknown or undefined id has no serviceMap entry.
ServiceActiveToday(service_id) ==
    LET today == now
        wday  == WeekdayNames004[GetDay(now, tz) + 1]
        exKey == <<service_id, IsoDate(now)>>
    IN  IF service_id \notin DOMAIN serviceMap THEN FALSE
        ELSE IF today < serviceMap[service_id].start
                \/ today > serviceMap[service_id].end THEN FALSE
        ELSE IF ~serviceMap[service_id].weekdays[wday] THEN FALSE
        ELSE IF exKey \in DOMAIN exceptionsMap THEN exceptionsMap[exKey] = 1
        ELSE TRUE

-----------------------------------------------------------------------------
(* app and p003: loadGTFSMapping, service_id -> list of day names *)

DayNames == <<"Sunday", "Monday", "Tuesday", "Wednesday", "Thursday",
              "Friday", "Saturday">>

\* The day names, in dayNames order, whose column of the row holds '1'.
RECURSIVE DaysOfRow(_, _)
DaysOfRow(row, idx) ==
    IF idx > 7 THEN <<>>
    ELSE (IF row[DayColumns[idx]] THEN <<DayNames[idx]>> ELSE <<>>)
            \o DaysOfRow(row, idx + 1)

\* app: "From calendar.txt"
CalendarDaysApp == [sid \in DOMAIN calendar |-> DaysOfRow(calendar[sid], 1)]

\* p003 reads a calendar row by position, as [service_id,sun,mon,...,sat,...].
\* In a file laid out monday..sunday (the GTFS reference order) the column read
\* as day k holds the flag of day k+1.
PositionalRow(row, layout) ==
    IF layout = "sunday_first" THEN row
    ELSE [sunday |-> row.monday, monday |-> row.tuesday, tuesday |-> row.wednesday,
          wednesday |-> row.thursday, thursday |-> row.friday,
          friday |-> row.saturday, saturday |-> row.sunday,
          start_date |-> row.start_date, end_date |-> row.end_date]

\* p003: "calendar.txt"; the header line is read as a row as well.
CalendarDays003(layout) ==
    [sid \in DOMAIN calendar \cup {"service_id"} |->
        IF sid = "service_id" THEN <<>>
        ELSE DaysOfRow(PositionalRow(calendar[sid], layout), 1)]

\* One calendar_dates.txt row applied to the day map (app lines 83-93,
\* p003 lines 75-86): the row's date is reduced to its weekday name.
ApplyExceptionRow(dm, row, off) ==
    LET dayName == DayNames[GetDay(ParseYmd(row.date), off) + 1]
        cur == IF row.service_id \in DOMAIN dm THEN dm[row.service_id] ELSE <<>>
        new == IF row.exception_type = 1
                   THEN (IF dayName \in Range(cur) THEN cur ELSE Append(cur, dayName))
               ELSE IF row.exception_type = 2
                   THEN (IF IndexOf(cur, dayName) >= 1
                            THEN RemoveAt(cur, IndexOf(cur, dayName)) ELSE cur)
               ELSE cur
    IN  [s \in DOMAIN dm \cup {row.service_id} |->
            IF s = row.service_id THEN new ELSE dm[s]]

RECURSIVE ApplyExceptionRows(_, _, _)
ApplyExceptionRows(dm, rs, off) ==
    IF rs = <<>> THEN dm
    ELSE ApplyExceptionRows(ApplyExceptionRow(dm, Head(rs), off), Tail(rs), off)

\* app: loadCSV splits on line breaks without trimming, so a file that ends with
\* a line break yields a last row without a date, and row.date.slice throws.
LoadGTFSMappingApp ==
    /\ pc = "start"
    /\ \E trailing \in BOOLEAN :
        /\ calLayout' = [order |-> "by_name", trailing_newline |-> trailing]
        /\ IF trailing
           THEN /\ pc' = "app_threw"
                /\ UNCHANGED dayMap
           ELSE /\ pc' = "app_loaded"
                /\ dayMap' = ApplyExceptionRows(CalendarDaysApp, exRows, tz)
    /\ UNCHANGED <<pageVars, compassVars, inputVars, validServiceIds, tripToService, serviceMap,
                   exceptionsMap, tripsMap, rows, shown>>

LoadGTFSMapping003 ==
    /\ pc = "start"
    /\ \E layout \in {"monday_first", "sunday_first"} :
        /\ calLayout' = [order |-> layout, trailing_newline |-> TRUE]
        /\ dayMap' = ApplyExceptionRows(CalendarDays003(layout), exRows, tz)
    /\ pc' = "p003_loaded"
    /\ UNCHANGED <<pageVars, compassVars, inputVars, validServiceIds, tripToService, serviceMap,
                   exceptionsMap, tripsMap, rows, shown>>

-----------------------------------------------------------------------------
(* Inputs of the calendar specification *)

MonFri == {1, 2, 3, 4, 5}
Weekend == {0, 6}

NowDates == {20240703, 20240704, 20240705, 20240711}
TimesOfDay == {0, 10 * 3600, 23 * 3600 + 1800}
TzOffsets == {0, 3600}

CalRowsA == {CalRow(days, s, e) : days \in {MonFri, Weekend},
                                  s \in {20240101, 20240704},
                                  e \in {20240704, 20241231}}
CalRowsB == {CalRow(Weekend, 20240101, 20241231)}

RowsOf(sid) == IF sid = "A" THEN CalRowsA ELSE CalRowsB

\* calendar.txt holds at most one row per service_id.
Calendars ==
    UNION {{f \in [S -> CalRowsA \cup CalRowsB] : \A sid \in S : f[sid] \in RowsOf(sid)}
              : S \in SUBSET Services}

ExDates == {20240704, 20240711}
ExRowSet == [service_id : Services, date : ExDates, exception_type : {1, 2}]

\* calendar_dates.txt holds at most one row per (service_id, date).
UniqueKeys(rs) ==
    \A i, j \in 1..Len(rs) :
        (rs[i].service_id = rs[j].service_id /\ rs[i].date = rs[j].date) => i = j

ExRowSeqs ==
    {rs \in UNION {[1..n -> ExRowSet] : n \in 0..MaxExRows} : UniqueKeys(rs)}

DefaultTrips == [t \in TripIds |-> IF t = "T1" THEN "A" ELSE "B"]

InitCal ==
    /\ pc = "start"
    /\ tz \in TzOffsets
    /\ now \in {ParseYmd(d) + t : d \in NowDates, t \in TimesOfDay}
    /\ calendar \in Calendars
    /\ exRows \in ExRowSeqs
    /\ trips = DefaultTrips
    /\ calLayout = NotFetched
    /\ validServiceIds = {}
    /\ tripToService = <<>>
    /\ serviceMap = <<>>
    /\ exceptionsMap = <<>>
    /\ tripsMap = <<>>
    /\ dayMap = <<>>
    /\ scheduleRows = <<>>
    /\ rtEntities = <<>>
    /\ rows = <<>>
    /\ shown = <<>>
    /\ NoPage

NextCal ==
    \/ LoadGTFSMapping002
    \/ LoadGTFSMapping004
    \/ LoadGTFSMappingApp
    \/ LoadGTFSMapping003

SpecCal == InitCal /\ [][NextCal]_vars

-----------------------------------------------------------------------------
(* Service-day resolver: what the calendar files say *)

\* The user's today.
Today == LocalDate(now, tz)

\* The column of calendar.txt for the weekday of a date.
WeekdayOf(yyyymmdd) == ((ParseYmd(yyyymmdd) \div SecPerDay) + 4) % 7

ColumnOf(yyyymmdd) == DayColumns[WeekdayOf(yyyymmdd) + 1]

WeekdayFlag(sid, yyyymmdd) == sid \in DOMAIN calendar /\ calendar[sid][ColumnOf(yyyymmdd)]

InRange(sid, yyyymmdd) ==
    /\ sid \in DOMAIN calendar
    /\ calendar[sid].start_date <= yyyymmdd
    /\ yyyymmdd <= calendar[sid].end_date

HasException(sid, yyyymmdd, type) ==
    \E i \in 1..Len(exRows) : exRows[i] = [service_id |-> sid, date |-> yyyymmdd,
                                            exception_type |-> type]

\* What the loaded variant answers for a service today.
ReportedActive(sid) ==
    IF pc = "p002_loaded" THEN sid \in validServiceIds ELSE ServiceActiveToday(sid)

ResolverLoaded == pc \in {"p002_loaded", "p004_loaded"}

\* C1: a service whose weekly rule covers today (weekday flag set, today within
\* start_date..end_date) is active today unless a removal exception row exists
\* for today, and then it is not active.
C1_RemovalExceptions ==
    ResolverLoaded =>
        \A sid \in Services :
            (WeekdayFlag(sid, Today) /\ InRange(sid, Today)) =>
                (ReportedActive(sid) <=> ~HasException(sid, Today, 2))

\* C2: a service with an addition exception row for today is active today,
\* whatever its weekly rule and also when it has no calendar row.
C2_AddedExceptions ==
    ResolverLoaded =>
        \A sid \in Services : HasException(sid, Today, 1) => ReportedActive(sid)

\* C4: with the weekday flag set and no exception for today, a service is active
\* exactly when start_date <= today <= end_date, both ends included, at any time
\* of day.
C4_ClosedRange ==
    ResolverLoaded =>
        \A sid \in DOMAIN calendar :
            (WeekdayFlag(sid, Today) /\ ~HasException(sid, Today, 1)
                                     /\ ~HasException(sid, Today, 2)) =>
                (ReportedActive(sid) <=> InRange(sid, Today))

\* The days a service is reported to run on, from the weekly rows alone.
WeeklyDays(sid) ==
    LET base == IF pc = "app_loaded" THEN CalendarDaysApp
                ELSE CalendarDays003(calLayout.order)
    IN  IF sid \in DOMAIN base THEN Range(base[sid]) ELSE {}

ReportedDays(sid) == IF sid \in DOMAIN dayMap THEN Range(dayMap[sid]) ELSE {}

DayNameOf(yyyymmdd) == DayNames[WeekdayOf(yyyymmdd) + 1]

ProbeDates == NowDates \cup ExDates \cup {20240718}

\* C3: an exception row changes what a service is reported to run on only for
\* the date it names: on every date without an exception row of that service the
\* report is the one the weekly calendar rule gives.
C3_ExceptionOnlyOnItsDate ==
    pc \in {"app_loaded", "p003_loaded"} =>
        \A sid \in Services : \A d \in ProbeDates :
            (~HasException(sid, d, 1) /\ ~HasException(sid, d, 2)) =>
                (DayNameOf(d) \in ReportedDays(sid) <=> DayNameOf(d) \in WeeklyDays(sid))

-----------------------------------------------------------------------------
(* Array helpers *)

\* Array.prototype.sort with a comparator a.key - b.key: the sort is stable, so
\* the element at i goes behind every element with a smaller key and behind the
\* earlier elements with an equal key.  keys[i] is the key of sq[i].
StableSortByKey(sq, keys) ==
    LET n == Len(sq)
        pos(i) == Cardinality({j \in 1..n : keys[j] < keys[i]
                                             \/ (keys[j] = keys[i] /\ j < i)}) + 1
    IN  [p \in 1..n |-> sq[CHOOSE i \in 1..n : pos(i) = p]]

\* arr.filter((a,i,arr) => arr.findIndex(b => key(b) === key(a)) === i):
\* the first element of every key.  keys[i] is the key of sq[i].
FirstOfEachKey(sq, keys) ==
    LET keep == {i \in 1..Len(sq) : \A j \in 1..(i - 1) : keys[j] # keys[i]}
    IN  [p \in 1..Cardinality(keep) |->
            sq[CHOOSE i \in keep : Cardinality({j \in keep : j <= i}) = p]]

\* Array.from(new Map(arr.map(a => [key(a), a])).values()): one element per key,
\* at the place of the key's first element, holding the key's last element.
MapValuesByKey(sq, keys) ==
    LET first == {i \in 1..Len(sq) : \A j \in 1..(i - 1) : keys[j] # keys[i]}
        last(i) == CHOOSE j \in 1..Len(sq) :
                       keys[j] = keys[i] /\ \A k \in (j + 1)..Len(sq) : keys[k] # keys[i]
    IN  [p \in 1..Cardinality(first) |->
            sq[last(CHOOSE i \in first : Cardinality({j \in first : j <= i}) = p)]]

-----------------------------------------------------------------------------
(* The display window *)

WINDOW_PAST_MIN == 30
WINDOW_FUTURE_MIN == 60

\* The stop being rendered.
StopAtco == "S1"

\* const t = new Date(); t.setHours(h, m, s): that time of day on the local day
\* of now (hours past 23 run into the next day).
SetHoursToday(hms) == LocalMidnight(now, tz) + HmsSeconds(hms)

\* 'HH:MM:SS' strings under localeCompare: two zero-padded strings compare as
\* the numbers their digits spell.
TimeStringKey(hms) == hms[1] * 10000 + hms[2] * 100 + hms[3]

-----------------------------------------------------------------------------
(* p002: filterArrivals and the stop's list *)

InWindow002(a) ==
    LET startTime == now - 30 * 60
        endTime   == now + 60 * 60
        t         == SetHoursToday(a.arrival_time)
    IN  t >= startTime /\ t <= endTime

\* A filter that asks only whether the trip is known.
ServiceValid002KnownTrip(a) == a.trip_id \in DOMAIN tripToService

ServiceValid002(a) ==
    /\ a.trip_id \in DOMAIN tripToService
    /\ tripToService[a.trip_id] \in validServiceIds

Dedupe002(filtered) ==
    FirstOfEachKey(filtered, [i \in 1..Len(filtered) |-> filtered[i].trip_id])

Sort002(sq) ==
    StableSortByKey(sq, [i \in 1..Len(sq) |-> TimeStringKey(sq[i].arrival_time)])

\* A filter that deduplicates before it looks at service and window.
FilterArrivals002DedupeFirst(arrivals) ==
    LET Keep(a) == ServiceValid002(a) /\ InWindow002(a)
    IN  Sort002(SelectSeq(Dedupe002(arrivals), Keep))

FilterArrivals002(arrivals) ==
    LET Keep(a) == ServiceValid002(a) /\ InWindow002(a)
        filtered == SelectSeq(arrivals, Keep)
    IN  Sort002(Dedupe002(filtered))

\* One pass of the renderStops loop: `${route_short} -> ${trip_headsign} at ${arrival_time}`
RenderStop002 ==
    /\ pc = "p002_loaded"
    /\ rows' = FilterArrivals002(scheduleRows)
    /\ shown' = [i \in 1..Len(rows') |->
                    [trip_id |-> rows'[i].trip_id, at |-> rows'[i].arrival_time,
                     realtime_label |-> FALSE]]
    /\ pc' = "p002_done"
    /\ UNCHANGED <<pageVars, compassVars, inputVars, calVars>>

-----------------------------------------------------------------------------
(* p004: loadStopJson and the stop's list *)

TIME_WINDOW_PAST_MIN == 30
TIME_WINDOW_FUTURE_MIN == 60

\* data.filter(trip => serviceActiveToday(tripsMap[trip.trip_id]))
LoadStopJson004(data) ==
    LET Keep(a) == /\ a.trip_id \in DOMAIN tripsMap
                   /\ ServiceActiveToday(tripsMap[a.trip_id])
    IN  SelectSeq(data, Keep)

\* new Date(`1970-01-01T${a.arrival_time}Z`): that time of day on 1970-01-01;
\* an hour past 23 gives an invalid date, whose difference to now is NaN.
TimeOn1970(hms) == IF hms[1] <= 23 THEN Some(HmsSeconds(hms)) ELSE None

\* diff = (a.time - now)/60000 minutes; diff >= -30 && diff <= 60
InWindow004(a) ==
    LET time == TimeOn1970(a.arrival_time)
    IN  /\ IsSome(time)
        /\ Get(time) - now >= -(TIME_WINDOW_PAST_MIN * 60)
        /\ Get(time) - now <= TIME_WINDOW_FUTURE_MIN * 60

Dedupe004(filtered) ==
    MapValuesByKey(filtered,
        [i \in 1..Len(filtered) |-> <<filtered[i].trip_id, filtered[i].arrival_time>>])

\* const arrivals = await loadStopJson(stop.atco)
FetchStop004 ==
    /\ pc = "p004_loaded"
    /\ rows' = LoadStopJson004(scheduleRows)
    /\ pc' = "p004_fetched"
    /\ UNCHANGED <<pageVars, compassVars, inputVars, calVars, shown>>

\* The rest of the loop body: window, dedupe, list items.
RenderStop004 ==
    /\ pc = "p004_fetched"
    /\ rows' = Dedupe004(SelectSeq(rows, InWindow004))
    /\ shown' = [i \in 1..Len(rows') |->
                    [trip_id |-> rows'[i].trip_id, at |-> rows'[i].arrival_time,
                     realtime_label |-> FALSE]]
    /\ pc' = "p004_done"
    /\ UNCHANGED <<pageVars, compassVars, inputVars, calVars>>

-----------------------------------------------------------------------------
(* p001: the stop's list *)

\* t.setHours(h, m, s, 0); deltaMin = (t - now)/60000; -30 <= deltaMin <= 60
InWindow001(a) ==
    LET t == SetHoursToday(a.arrival_time)
    IN  t - now >= -(30 * 60) /\ t - now <= 60 * 60

Dedupe001(filtered) ==
    MapValuesByKey(filtered,
        [i \in 1..Len(filtered) |-> <<filtered[i].trip_id, filtered[i].arrival_time>>])

RenderStop001 ==
    /\ pc = "start"
    /\ rows' = Dedupe001(SelectSeq(scheduleRows, InWindow001))
    /\ shown' = [i \in 1..Len(rows') |->
                    [trip_id |-> rows'[i].trip_id, at |-> rows'[i].arrival_time,
                     realtime_label |-> FALSE]]
    /\ pc' = "p001_done"
    /\ UNCHANGED <<pageVars, compassVars, inputVars, calVars>>

-----------------------------------------------------------------------------
(* app4: realtime lookup *)

\* timePartsToDate(dateYYYYMMDD, hhmmss): the time of day placed, as UTC hours,
\* on the UTC midnight of the given date, or of the local calendar date of now
\* when no 8-digit date is given.
TimePartsToDate(date, hms) ==
    LET d == IF IsSome(date) THEN ParseYmd(Get(date))
             ELSE ((now + tz) \div SecPerDay) * SecPerDay
    IN  d + HmsSeconds(hms)

\* formatTimeFromDate(d): the local time of day of an instant, as <<HH, MM, SS>>.
FormatTimeFromDate(t) ==
    LET sod == (t + tz) % SecPerDay
    IN  <<sod \div 3600, (sod \div 60) % 60, sod % 60>>

\* The stopMap key of a stop_time_update: stop_id || seq.
StopKey(stop_id, seq) ==
    IF IsSome(stop_id) THEN Some(<<"stop_id", Get(stop_id)>>)
    ELSE IF IsSome(seq) THEN Some(<<"seq", Get(seq)>>)
    ELSE None

\* A StopTimeEvent's time counts when it is truthy (present and not 0).
EventTime(ev) == IF IsSome(ev) /\ IsSome(Get(ev).time) /\ Get(Get(ev).time) # 0
                 THEN Get(ev).time ELSE None

EventDelay(ev) == IF IsSome(ev) THEN Get(ev).delay ELSE None

\* A stopMap entry that prefers the departure of the update.
StopEntryDepartureFirst(stu) ==
    LET aTime  == EventTime(stu.arrival)
        aDelay == EventDelay(stu.arrival)
        dTime  == EventTime(stu.departure)
        dDelay == EventDelay(stu.departure)
    IN  [arrivalUnix |-> IF IsSome(dTime) THEN dTime ELSE aTime,
         delay       |-> IF IsSome(dDelay) THEN dDelay ELSE aDelay,
         seq         |-> stu.stop_sequence,
         stop_id     |-> stu.stop_id]

\* The stopMap entry of one stop_time_update (buildRtLookup lines 158-173).
StopEntry(stu) ==
    LET aTime  == EventTime(stu.arrival)
        aDelay == EventDelay(stu.arrival)
        dTime  == EventTime(stu.departure)
        dDelay == EventDelay(stu.departure)
    IN  [arrivalUnix |-> IF IsSome(aTime) THEN aTime ELSE dTime,
         delay       |-> IF IsSome(aDelay) THEN aDelay ELSE dDelay,
         seq         |-> stu.stop_sequence,
         stop_id     |-> stu.stop_id]

\* stopMap of a trip block: the last update of every key.
StopMap(stus) ==
    LET keyed == {i \in 1..Len(stus) : IsSome(StopKey(stus[i].stop_id, stus[i].stop_sequence))}
        KeyAt(i) == Get(StopKey(stus[i].stop_id, stus[i].stop_sequence))
    IN  [k \in {KeyAt(i) : i \in keyed} |->
            StopEntry(stus[CHOOSE i \in keyed :
                              KeyAt(i) = k /\ \A j \in keyed : KeyAt(j) = k => j <= i])]

\* buildRtLookup(entities): trip_id -> the last entity of that trip.
BuildRtLookup(entities) ==
    LET withId == {i \in 1..Len(entities) : entities[i].trip_id # ""}
    IN  [t \in {entities[i].trip_id : i \in withId} |->
            LET e == entities[CHOOSE i \in withId :
                        entities[i].trip_id = t
                        /\ \A j \in withId : entities[j].trip_id = t => j <= i]
            IN  [start_date |-> e.start_date, stops |-> StopMap(e.stop_time_update)]]

-----------------------------------------------------------------------------
(* app4: mergeScheduledWithRT *)

\* The RT stop entry of a schedule row: by stop_id first, else by stop_sequence.
FindRtStop(r, rt) ==
    LET byId  == IF IsSome(r.stop_id) THEN <<"stop_id", Get(r.stop_id)>> ELSE <<"none">>
        bySeq == IF IsSome(r.stop_sequence) THEN <<"seq", Get(r.stop_sequence)>> ELSE <<"none">>
    IN  IF byId \in DOMAIN rt.stops THEN Some(rt.stops[byId])
        ELSE IF bySeq \in DOMAIN rt.stops THEN Some(rt.stops[bySeq])
        ELSE None

\* A prediction that leaves the delay out.
RealtimeOfNoDelay(r, rt, rtStop) ==
    IF IsSome(rtStop.arrivalUnix) THEN rtStop.arrivalUnix
    ELSE IF IsSome(rtStop.delay)
         THEN Some(TimePartsToDate(rt.start_date, r.arrival_time))
    ELSE None

\* The predicted instant of a row with a matching RT stop entry (lines 215-231).
RealtimeOf(r, rt, rtStop) ==
    IF IsSome(rtStop.arrivalUnix) THEN rtStop.arrivalUnix
    ELSE IF IsSome(rtStop.delay)
         THEN Some(TimePartsToDate(rt.start_date, r.arrival_time) + Get(rtStop.delay))
    ELSE None

DelaySecondsOf(r, rt, rtStop) ==
    IF IsSome(rtStop.arrivalUnix)
        THEN (IF IsSome(rtStop.delay) THEN rtStop.delay
              ELSE Some(Get(rtStop.arrivalUnix)
                            - TimePartsToDate(rt.start_date, r.arrival_time)))
    ELSE rtStop.delay

\* The merged row of one schedule row (the body of the for loop).
MergeRow(r, rtByTrip) ==
    LET hasRt  == r.trip_id \in DOMAIN rtByTrip
        rt     == rtByTrip[r.trip_id]
        rtStop == IF hasRt THEN FindRtStop(r, rt) ELSE None
        realtime == IF IsSome(rtStop) THEN RealtimeOf(r, rt, Get(rtStop)) ELSE None
        scheduledDate == TimePartsToDate(IF hasRt THEN rt.start_date ELSE None,
                                         r.arrival_time)
        ref == IF IsSome(realtime) THEN Get(realtime) ELSE scheduledDate
    IN  [trip_id |-> r.trip_id, arrival_time |-> r.arrival_time,
         route_short |-> r.route_short, trip_headsign |-> r.trip_headsign,
         stop_id |-> r.stop_id, stop_sequence |-> r.stop_sequence,
         realtime |-> realtime,
         rt_found |-> hasRt,
         delay_seconds |-> IF IsSome(rtStop) THEN DelaySecondsOf(r, rt, Get(rtStop))
                           ELSE None,
         scheduledDate |-> scheduledDate,
         withinWindow |-> /\ ref >= now - WINDOW_PAST_MIN * 60
                          /\ ref <= now + WINDOW_FUTURE_MIN * 60]

\* The effective time of a merged row: realtime if present else scheduled.
EffectiveTime(m) == IF IsSome(m.realtime) THEN Get(m.realtime) ELSE m.scheduledDate

WithinWindowApp4(m) == m.withinWindow

\* No deduplication at all.
DedupeApp4Off(filtered) == filtered

\* dedupe by `${trip_id}|${arrival_time}|${realtime or 'ns'}`
DedupeApp4(filtered) ==
    FirstOfEachKey(filtered,
        [i \in 1..Len(filtered) |->
            <<filtered[i].trip_id, filtered[i].arrival_time, filtered[i].realtime>>])

\* No sort at all.
SortApp4Off(uniq) == uniq

SortApp4(uniq) ==
    StableSortByKey(uniq, [i \in 1..Len(uniq) |-> EffectiveTime(uniq[i])])

MergeScheduledWithRT(schedule, rtByTrip) ==
    LET out == [i \in 1..Len(schedule) |-> MergeRow(schedule[i], rtByTrip)]
    IN  SortApp4(DedupeApp4(SelectSeq(out, WithinWindowApp4)))

\* A list item that always carries the [RT] span.
ListItemApp4AlwaysRt(m) ==
    [trip_id |-> m.trip_id,
     at |-> IF IsSome(m.realtime) THEN FormatTimeFromDate(Get(m.realtime))
            ELSE FormatTimeFromDate(m.scheduledDate),
     scheduled |-> FormatTimeFromDate(m.scheduledDate),
     realtime_label |-> TRUE]

\* The list item of a merged row (render lines 353-377): with a realtime instant
\* the item reads "at <rt> [RT] (<delay>) scheduled <sched>", else "scheduled <sched>".
ListItemApp4(m) ==
    [trip_id |-> m.trip_id,
     at |-> IF IsSome(m.realtime) THEN FormatTimeFromDate(Get(m.realtime))
            ELSE FormatTimeFromDate(m.scheduledDate),
     scheduled |-> FormatTimeFromDate(m.scheduledDate),
     realtime_label |-> IsSome(m.realtime)]

\* One pass of the render loop for the stop.
RenderStopApp4 ==
    /\ pc = "start"
    /\ rows' = MergeScheduledWithRT(scheduleRows, BuildRtLookup(rtEntities))
    /\ shown' = [i \in 1..Len(rows') |-> ListItemApp4(rows'[i])]
    /\ pc' = "app4_done"
    /\ UNCHANGED <<pageVars, compassVars, inputVars, calVars>>

-----------------------------------------------------------------------------
(* p007: mergeArrivals *)

\* The stop_time_updates of the feed at the stop, reduced as in lines 64-73.
\* The trip id is read from the update itself (stu.trip?.trip_id).
RtTrips007(stopAtco, feed) ==
    LET RECURSIVE Flat(_)
        Flat(i) == IF i > Len(feed) THEN <<>>
                   ELSE feed[i].stop_time_update \o Flat(i + 1)
        AtStop(stu) == stu.stop_id = Some(stopAtco)
        stus == SelectSeq(Flat(1), AtStop)
    IN  [i \in 1..Len(stus) |->
            [trip_id |-> IF IsSome(stus[i].trip) THEN Some(Get(stus[i].trip).trip_id)
                         ELSE None,
             route_short |-> IF IsSome(stus[i].trip) THEN Get(stus[i].trip).route_id
                             ELSE "Unknown",
             expected_time |-> IF IsSome(EventTime(stus[i].arrival))
                               THEN Some(FormatTimeFromDate(Get(EventTime(stus[i].arrival))))
                               ELSE None]]

MergeArrivals007(stopAtco, scheduled, feed) ==
    LET rtTrips == RtTrips007(stopAtco, feed)
        SchedOf(rt) == {i \in 1..Len(scheduled) : Some(scheduled[i].trip_id) = rt.trip_id}
        fromRt == [i \in 1..Len(rtTrips) |->
                     [route_short |-> rtTrips[i].route_short,
                      expected_time |-> rtTrips[i].expected_time,
                      scheduled_time |->
                          IF SchedOf(rtTrips[i]) = {} THEN None
                          ELSE Some(scheduled[CHOOSE k \in SchedOf(rtTrips[i]) :
                                        \A l \in SchedOf(rtTrips[i]) : k <= l].arrival_time)]]
        NotInRt(sch) == \A i \in 1..Len(rtTrips) : rtTrips[i].trip_id # Some(sch.trip_id)
        rest == SelectSeq(scheduled, NotInRt)
    IN  fromRt \o [i \in 1..Len(rest) |->
                     [route_short |-> rest[i].route_short,
                      expected_time |-> None,
                      scheduled_time |-> Some(rest[i].arrival_time)]]

\* One pass of the renderStops loop: '| Real-time: ' and '| Scheduled: ' parts.
RenderStop007 ==
    /\ pc = "start"
    /\ rows' = MergeArrivals007(StopAtco, scheduleRows, rtEntities)
    /\ shown' = [i \in 1..Len(rows') |->
                    [route_short |-> rows'[i].route_short,
                     realtime_label |-> IsSome(rows'[i].expected_time),
                     scheduled_label |-> IsSome(rows'[i].scheduled_time)]]
    /\ pc' = "p007_done"
    /\ UNCHANGED <<pageVars, compassVars, inputVars, calVars>>

-----------------------------------------------------------------------------
(* Rendering one stop: inputs *)

\* The page is opened at 10:00:00 local time on Thursday 2024-07-04.
OpenedAt(off) == ParseYmd(20240704) + 10 * 3600 - off

\* 31 and 30 minutes before, 60 and 61 minutes after that time.
ArrivalTimes == {<<9, 29, 0>>, <<9, 30, 0>>, <<11, 0, 0>>, <<11, 1, 0>>}

\* The page is opened at 00:15:00 local time on 2024-07-04, while trips that
\* started on 2024-07-03 are still running.
OpenedAfterMidnight(off) == ParseYmd(20240704) + 15 * 60 - off

\* 25 minutes before and 5 minutes after that time.
NightArrivalTimes == {<<23, 50, 0>>, <<0, 20, 0>>}

RouteOf(t) == IF t = "T1" THEN "R1" ELSE "R2"

HeadsignOf(t) == IF t = "T1" THEN "H1" ELSE "H2"

StopSequence == Some(3)

\* A stop file carries stop_id, or stop_sequence, or neither, in all its rows.
RowShapes == {"stop_id", "stop_sequence", "plain"}

ScheduleRow(t, at, shape) ==
    [trip_id |-> t, arrival_time |-> at, route_short |-> RouteOf(t),
     trip_headsign |-> HeadsignOf(t),
     stop_id |-> IF shape = "stop_id" THEN Some(StopAtco) ELSE None,
     stop_sequence |-> IF shape = "stop_sequence" THEN StopSequence ELSE None]

ScheduleSeqs(shape, times) ==
    UNION {[1..n -> {ScheduleRow(t, at, shape) : t \in TripIds, at \in times}]
              : n \in 0..MaxRows}

\* An absolute predicted arrival: 09:45:00Z on 2024-07-04.
RtTime == ParseYmd(20240704) + 9 * 3600 + 45 * 60

Delays == {0, 60, -60}

\* (arrival, departure) of a stop_time_update.
StopTimeEvents ==
    {<<Some([time |-> None, delay |-> Some(d)]), None>> : d \in Delays}
    \cup {<<Some([time |-> Some(RtTime), delay |-> None]), None>>,
          <<Some([time |-> Some(RtTime), delay |-> Some(60)]), None>>,
          <<None, Some([time |-> None, delay |-> Some(60)])>>,
          <<None, None>>}

\* Where an update is: at the stop (with or without its own trip descriptor),
\* at another stop, or identified by stop_sequence only.
StuPlaces == {"S1", "S1_trip", "S2", "seq"}

StopTimeUpdate(place, ev) ==
    [stop_id |-> IF place \in {"S1", "S1_trip"} THEN Some("S1")
                 ELSE IF place = "S2" THEN Some("S2") ELSE None,
     stop_sequence |-> IF place = "seq" THEN StopSequence ELSE None,
     arrival |-> ev[1], departure |-> ev[2],
     trip |-> IF place = "S1_trip" THEN Some([trip_id |-> "T1", route_id |-> "R1"])
              ELSE None]

\* The feed knows trip T1 only.
Entities(startDates) ==
    {[trip_id |-> "T1", start_date |-> sd,
      stop_time_update |-> <<StopTimeUpdate(place, ev)>>] :
        sd \in startDates, place \in StuPlaces, ev \in StopTimeEvents}

Feeds(startDates) == {<<e>> : e \in Entities(startDates)}

FullYear(days) == CalRow(days, 20240101, 20241231)

\* calendar.txt, calendar_dates.txt and trips.txt of the schedule-only pages.
CalendarCases ==
    { <<[sid \in Services |-> FullYear(IF sid = "A" THEN MonFri ELSE Weekend)],
        <<>>, DefaultTrips>>,
      <<[sid \in Services |-> FullYear(IF sid = "A" THEN MonFri ELSE Weekend)],
        <<>>, [t \in {"T1"} |-> "A"]>>,
      <<[sid \in Services |-> FullYear(MonFri)],
        <<[service_id |-> "A", date |-> 20240704, exception_type |-> 2]>>,
        DefaultTrips>>,
      <<[sid \in Services |-> FullYear(MonFri)], <<>>, DefaultTrips>> }

InitWin ==
    /\ pc = "start"
    /\ tz \in TzOffsets
    /\ \/ /\ now = OpenedAt(tz)
          /\ rtEntities = <<>>
          /\ \E c \in CalendarCases :
                /\ calendar = c[1]
                /\ exRows = c[2]
                /\ trips = c[3]
          /\ scheduleRows \in ScheduleSeqs("plain", ArrivalTimes)
       \/ /\ now = OpenedAt(tz)
          /\ rtEntities \in Feeds({None, Some(20240704)})
          /\ calendar = [sid \in Services |-> FullYear(MonFri)]
          /\ exRows = <<>>
          /\ trips = DefaultTrips
          /\ scheduleRows \in UNION {ScheduleSeqs(shape, ArrivalTimes) :
                                         shape \in RowShapes}
       \/ /\ now = OpenedAfterMidnight(tz)
          /\ rtEntities \in Feeds({None, Some(20240703)})
          /\ calendar = [sid \in Services |-> FullYear(MonFri)]
          /\ exRows = <<>>
          /\ trips = DefaultTrips
          /\ scheduleRows \in UNION {ScheduleSeqs(shape, NightArrivalTimes) :
                                         shape \in RowShapes}
    /\ calLayout = NotFetched
    /\ validServiceIds = {}
    /\ tripToService = <<>>
    /\ serviceMap = <<>>
    /\ exceptionsMap = <<>>
    /\ tripsMap = <<>>
    /\ dayMap = <<>>
    /\ rows = <<>>
    /\ shown = <<>>
    /\ NoPage

NextWin ==
    \/ LoadGTFSMapping002
    \/ RenderStop002
    \/ LoadGTFSMapping004
    \/ FetchStop004
    \/ RenderStop004
    \/ RenderStop001
    \/ RenderStopApp4
    \/ RenderStop007

SpecWin == InitWin /\ [][NextWin]_vars

-----------------------------------------------------------------------------
(* Arrival merge and filter: what the page should list *)

\* The instant of a schedule time of day on the user's today.
TimeToday(hms) == ParseYmd(Today) + HmsSeconds(hms) - tz

InDisplayWindow(hms) ==
    /\ now - 30 * 60 <= TimeToday(hms)
    /\ TimeToday(hms) <= now + 60 * 60

\* The service of a trip in trips.txt, and what the loaded resolver says of it.
ActiveTrip(t) == t \in DOMAIN trips /\ ReportedActive(trips[t])

HasRow(t, at) ==
    \E j \in 1..Len(rows) : rows[j].trip_id = t /\ rows[j].arrival_time = at

HasRowOfTrip(t) == \E j \in 1..Len(rows) : rows[j].trip_id = t

\* C5: an arrival is listed iff now - 30 min <= its time today <= now + 60 min:
\* the arrivals 30 minutes back and 60 minutes ahead are listed, those 31 minutes
\* back and 61 minutes ahead are not (schedule-only lists; arrivals of active
\* services where the page filters by service).
C5_DisplayWindow ==
    (pc \in {"p002_done", "p004_done", "app4_done"} /\ rtEntities = <<>>) =>
        /\ \A j \in 1..Len(rows) : InDisplayWindow(rows[j].arrival_time)
        /\ \A i \in 1..Len(scheduleRows) :
              LET r == scheduleRows[i]
                  eligible ==
                      IF pc = "p002_done" THEN ServiceValid002(r)
                      ELSE IF pc = "p004_done"
                           THEN (r.trip_id \in DOMAIN tripsMap
                                 /\ ServiceActiveToday(tripsMap[r.trip_id]))
                      ELSE TRUE
              IN  (eligible /\ InDisplayWindow(r.arrival_time)) => HasRowOfTrip(r.trip_id)

DedupeDone == pc \in {"p002_done", "p001_done", "p004_done", "app4_done"}

\* C6 as stated: the output never holds two rows with the same trip_id.
C6_OneRowPerTrip ==
    DedupeDone =>
        \A i, j \in 1..Len(rows) : rows[i].trip_id = rows[j].trip_id => i = j

\* The deduplication key of a row in the variant that produced it.
DedupeKey(m) ==
    IF pc = "p002_done" THEN <<m.trip_id>>
    ELSE IF pc = "app4_done" THEN <<m.trip_id, m.arrival_time, m.realtime>>
    ELSE <<m.trip_id, m.arrival_time>>

\* C6: the output never holds two rows with the same deduplication key, which is
\* trip_id in p002, trip_id + arrival_time in p001 and p004, and trip_id +
\* arrival_time + predicted instant in app4; two arrivals of one trip at
\* different times are both listed by the latter three.
C6_OneRowPerKey ==
    DedupeDone =>
        \A i, j \in 1..Len(rows) : DedupeKey(rows[i]) = DedupeKey(rows[j]) => i = j

\* Two equal in-window rows went in and one row came out.
C6_Witness ==
    /\ pc = "app4_done"
    /\ Len(scheduleRows) = 2
    /\ scheduleRows[1] = scheduleRows[2]
    /\ Len(rows) = 1

SortDone == pc \in {"p002_done", "app4_done"}

\* Effective display time and scheduled time of an output row.
EffectiveOf(m) ==
    IF pc = "app4_done"
        THEN (IF IsSome(m.realtime) THEN Get(m.realtime) ELSE m.scheduledDate)
    ELSE TimeToday(m.arrival_time)

ScheduledOf(m) ==
    IF pc = "app4_done" THEN m.scheduledDate ELSE TimeToday(m.arrival_time)

\* C7 as stated: rows ascend by effective time, and rows with equal effective
\* time ascend by scheduled time.
C7_SortedTiesByScheduled ==
    SortDone =>
        \A i, j \in 1..Len(rows) :
            i < j => \/ EffectiveOf(rows[i]) < EffectiveOf(rows[j])
                     \/ /\ EffectiveOf(rows[i]) = EffectiveOf(rows[j])
                        /\ ScheduledOf(rows[i]) <= ScheduledOf(rows[j])

\* The place of an output row's arrival in the stop file.
FirstIndex(m) ==
    CHOOSE k \in 1..Len(scheduleRows) :
        /\ scheduleRows[k].trip_id = m.trip_id
        /\ scheduleRows[k].arrival_time = m.arrival_time
        /\ \A l \in 1..(k - 1) : ~(/\ scheduleRows[l].trip_id = m.trip_id
                                   /\ scheduleRows[l].arrival_time = m.arrival_time)

\* C7: rows ascend by effective time (the prediction if present, else the
\* scheduled time), and rows with equal effective time stay in the order of the
\* stop file, whatever their scheduled times.
C7_SortedByEffectiveTime ==
    SortDone =>
        \A i, j \in 1..Len(rows) :
            i < j => \/ EffectiveOf(rows[i]) < EffectiveOf(rows[j])
                     \/ /\ EffectiveOf(rows[i]) = EffectiveOf(rows[j])
                        /\ FirstIndex(rows[i]) < FirstIndex(rows[j])

\* A predicted row overtook a scheduled row that came first in the stop file.
C7_Witness ==
    /\ pc = "app4_done"
    /\ Len(scheduleRows) = 2
    /\ Len(rows) = 2
    /\ rows[1].trip_id = scheduleRows[2].trip_id
    /\ rows[1].arrival_time = scheduleRows[2].arrival_time
    /\ IsSome(rows[1].realtime)
    /\ EffectiveOf(rows[1]) < EffectiveOf(rows[2])
    /\ ScheduledOf(rows[1]) > ScheduledOf(rows[2])

\* C8: with the calendar loaded, no listed arrival belongs to a trip whose
\* service is outside the active set or whose service is unknown, and every
\* arrival of an active trip is kept by the filter step (p002: every such arrival
\* in the display window has its trip listed; p004: every such arrival is in the
\* fetched list).
C8_ActiveServiceFilter ==
    /\ pc \in {"p002_done", "p004_fetched"} =>
          \A j \in 1..Len(rows) :
              IF pc = "p002_done"
                  THEN rows[j].trip_id \in DOMAIN trips
                       /\ trips[rows[j].trip_id] \in validServiceIds
                  ELSE rows[j].trip_id \in DOMAIN trips
                       /\ ServiceActiveToday(trips[rows[j].trip_id])
    /\ pc = "p002_done" =>
          \A i \in 1..Len(scheduleRows) :
              LET r == scheduleRows[i]
              IN  (/\ r.trip_id \in DOMAIN trips
                   /\ trips[r.trip_id] \in validServiceIds
                   /\ InDisplayWindow(r.arrival_time)) => HasRowOfTrip(r.trip_id)
    /\ pc = "p004_fetched" =>
          \A i \in 1..Len(scheduleRows) :
              LET r == scheduleRows[i]
              IN  (/\ r.trip_id \in DOMAIN trips
                   /\ ServiceActiveToday(trips[r.trip_id]))
                      => HasRow(r.trip_id, r.arrival_time)

\* An in-window arrival of an inactive service was dropped next to a kept one.
C8_Witness ==
    /\ pc = "p002_done"
    /\ Len(rows) = 1
    /\ \E i \in 1..Len(scheduleRows) :
          /\ InDisplayWindow(scheduleRows[i].arrival_time)
          /\ scheduleRows[i].trip_id \in DOMAIN trips
          /\ trips[scheduleRows[i].trip_id] \notin validServiceIds
          /\ ~HasRowOfTrip(scheduleRows[i].trip_id)

\* The stop_time_updates the feed holds for a row: those of the row's trip at the
\* row's stop_id, or with the row's stop_sequence when the row has no stop_id.
UpdatesFor(m) ==
    {stu \in UNION {Range(rtEntities[e].stop_time_update) :
                        e \in {k \in 1..Len(rtEntities) :
                                  rtEntities[k].trip_id = m.trip_id}} :
        \/ IsSome(m.stop_id) /\ stu.stop_id = m.stop_id
        \/ /\ ~IsSome(m.stop_id) /\ ~IsSome(stu.stop_id)
           /\ IsSome(m.stop_sequence) /\ stu.stop_sequence = m.stop_sequence}

StartDateFor(m) ==
    LET e == CHOOSE k \in 1..Len(rtEntities) : rtEntities[k].trip_id = m.trip_id
    IN  IF IsSome(rtEntities[e].start_date) THEN Get(rtEntities[e].start_date)
        ELSE Today

NoAbsoluteTime(stu) ==
    /\ ~(IsSome(stu.arrival) /\ IsSome(Get(stu.arrival).time))
    /\ ~(IsSome(stu.departure) /\ IsSome(Get(stu.departure).time))

\* The delay an update supplies: that of its arrival, else of its departure.
SuppliedDelay(stu) ==
    IF IsSome(stu.arrival) /\ IsSome(Get(stu.arrival).delay)
        THEN Get(stu.arrival).delay
    ELSE IF IsSome(stu.departure) THEN Get(stu.departure).delay
    ELSE None

\* C9: when the update of a row supplies a delay and no absolute time, the
\* row's predicted time is its scheduled time of day on the trip's start_date
\* (today when the feed gives none) plus the delay, and delay_seconds is the
\* delay; a delay of 0 predicts the scheduled time.
C9_DelayAdded ==
    pc = "app4_done" =>
        \A j \in 1..Len(rows) : \A stu \in UpdatesFor(rows[j]) :
            (NoAbsoluteTime(stu) /\ IsSome(SuppliedDelay(stu))) =>
                LET m == rows[j]
                    d == Get(SuppliedDelay(stu))
                    scheduled == ParseYmd(StartDateFor(m)) + HmsSeconds(m.arrival_time)
                IN  /\ m.realtime = Some(scheduled + d)
                    /\ m.delay_seconds = Some(d)
                    /\ (d = 0 => m.realtime = Some(m.scheduledDate))

\* A listed row of a trip that started yesterday took a delay of a minute from
\* the feed.
C9_Witness ==
    /\ pc = "app4_done"
    /\ \E j \in 1..Len(rows) : \E stu \in UpdatesFor(rows[j]) :
          /\ NoAbsoluteTime(stu)
          /\ SuppliedDelay(stu) = Some(60)
          /\ StartDateFor(rows[j]) # Today
          /\ rows[j].realtime = Some(rows[j].scheduledDate + 60)

\* The feed has nothing on a trip: no entity and no update names it.
NoFeedEntry(t) ==
    \A e \in 1..Len(rtEntities) :
        /\ rtEntities[e].trip_id # t
        /\ \A stu \in Range(rtEntities[e].stop_time_update) :
              IsSome(stu.trip) => Get(stu.trip).trip_id # t

\* C10: a scheduled row of a trip the feed has nothing on is still in the output
\* (in app4 when its scheduled instant is in the window), with its scheduled time
\* and a null predicted time, and its list item has no realtime label.
C10_ScheduledOnly ==
    /\ pc = "app4_done" =>
          /\ \A i \in 1..Len(scheduleRows) :
                LET r == scheduleRows[i]
                    t == TimePartsToDate(None, r.arrival_time)
                IN  (/\ NoFeedEntry(r.trip_id)
                     /\ now - WINDOW_PAST_MIN * 60 <= t
                     /\ t <= now + WINDOW_FUTURE_MIN * 60)
                        => HasRow(r.trip_id, r.arrival_time)
          /\ \A j \in 1..Len(rows) :
                NoFeedEntry(rows[j].trip_id) =>
                    /\ rows[j].realtime = None
                    /\ ~shown[j].realtime_label
    /\ pc = "p007_done" =>
          \A i \in 1..Len(scheduleRows) :
              LET r == scheduleRows[i]
              IN  NoFeedEntry(r.trip_id) =>
                      /\ \E j \in 1..Len(rows) :
                            /\ rows[j].route_short = r.route_short
                            /\ rows[j].scheduled_time = Some(r.arrival_time)
                      /\ \A j \in 1..Len(rows) :
                            rows[j].route_short = r.route_short =>
                                /\ rows[j].expected_time = None
                                /\ ~shown[j].realtime_label
                                /\ shown[j].scheduled_label

\* A feed that knows T1 was merged and a row of T2 is listed without a label.
C10_Witness ==
    /\ pc = "app4_done"
    /\ rtEntities # <<>>
    /\ \E j \in 1..Len(rows) :
          /\ rows[j].trip_id = "T2"
          /\ rows[j].realtime = None
          /\ ~shown[j].realtime_label
    /\ \E j \in 1..Len(rows) : shown[j].realtime_label

-----------------------------------------------------------------------------
(* The whole page: geography, geolocation, ranking, per-stop fetches *)
(*                                                                         *)
(* Representation:                                                         *)
(*   - An AtcoCode is the tuple of its characters, so that slice(-6) and   *)
(*     Number() are computed on the characters.                            *)
(*   - A coordinate property is [kind, value]: kind "number" for a string  *)
(*     that parses to the number value (in micro-degrees), "garbage" for a *)
(*     non-empty string that does not parse, "missing" for an absent one.  *)
(*   - The user and every stop lie on one meridian, where the haversine    *)
(*     distance R * 2 * atan2(sqrt(a), sqrt(1 - a)) is R * |lat2 - lat1|;  *)
(*     unrounded distances are kept in micro-degrees of latitude, rounded  *)
(*     ones in metres.                                                     *)
(*   - A request is <<kind, AtcoCode>>, with the empty tuple as AtcoCode   *)
(*     for the requests that are not about one stop.                       *)

MAX_NEARBY == 5

Req(kind) == <<kind, <<>>>>
StopReq(atco) == <<"stop", atco>>

\* A loop that fetches the calendar again for every stop.
StopRequestsRefetching(nearestStops) ==
    [k \in 1..(2 * Len(nearestStops)) |->
        IF k % 2 = 1 THEN <<"calendar.txt", <<>>>>
        ELSE <<"stop", nearestStops[k \div 2].feature.AtcoCode>>]

\* The requests of the loop over the nearest stops: loadStopJson of each stop.
StopRequests(nearestStops) ==
    [i \in 1..Len(nearestStops) |-> StopReq(nearestStops[i].feature.AtcoCode)]

\* parseFloat / Number of a coordinate property: NaN is None.
ParseCoord(c) == IF c.kind = "number" THEN Some(c.value) ELSE None

\* A property is truthy when it is a non-empty string.
Truthy(c) == c.kind # "missing"

Abs(x) == IF x < 0 THEN -x ELSE x

\* The difference of the latitudes with its sign.
HaversineSigned(lat1, lat2) == lat2 - lat1

\* R * c of the haversine formula on one meridian, in micro-degrees of latitude.
Haversine(lat1, lat2) == Abs(lat2 - lat1)

\* Math.round(R * c) in metres: one micro-degree of latitude is 0.111195 m
\* (R = 6371000).
\* (d * 111195 + 500000) \div 1000000, taken in parts to stay within TLC's integers.
RoundMetres(d) ==
    LET whole == d \div 1000000
        rest  == d % 1000000
        a     == rest \div 1000
        b     == rest % 1000
    IN  whole * 111195 + (a * 111195 + (b * 111195 + 500000) \div 1000) \div 1000

\* Array.prototype.slice(0, n).
Slice(sq, n) == SubSeq(sq, 1, IF Len(sq) < n THEN Len(sq) ELSE n)

\* A sort that leaves the list as it is.
SortByDistOff(list) == list

\* Array.prototype.sort with (a, b) => a.dist - b.dist over numbers: stable,
\* ascending.
SortByDist(list) == StableSortByKey(list, [i \in 1..Len(list) |-> list[i].dist])

-----------------------------------------------------------------------------
(* app4: render *)

\* The nearest stops (render lines 299-304): features whose coordinates parse,
\* by ascending distance, the first MAX_NEARBY.
NearestApp4(features, locLat) ==
    LET Valid(f) == IsSome(ParseCoord(f.Latitude)) /\ IsSome(ParseCoord(f.Longitude))
        kept == SelectSeq(features, Valid)
        list == [i \in 1..Len(kept) |->
                    [feature |-> kept[i],
                     dist |-> RoundMetres(Haversine(locLat,
                                            Get(ParseCoord(kept[i].Latitude))))]]
    IN  Slice(SortByDist(list), MAX_NEARBY)

\* loadStopJsonR2(atco) followed by the Array.isArray test: the rows of the
\* stop file, or no rows when the fetch failed or was not OK.
ScheduleRowsApp4(atco) ==
    IF atco \in DOMAIN stopJson /\ IsSome(stopJson[atco]) THEN Get(stopJson[atco])
    ELSE <<>>

\* The rows the merge loop keeps (lines 193-196): those with a scheduled time.
TimedRows(schedule) ==
    LET HasTime(r) == IsSome(r.arrival_time)
        timed == SelectSeq(schedule, HasTime)
    IN  [i \in 1..Len(timed) |-> [timed[i] EXCEPT !.arrival_time = Get(@)]]

\* value || '?'
OrPlaceholder(o, placeholder) == IF IsSome(o) THEN Get(o) ELSE placeholder

\* The <li> of a merged row: route, headsign and the times.
PageItemApp4(m) ==
    [route |-> OrPlaceholder(m.route_short, "?"),
     headsign |-> OrPlaceholder(m.trip_headsign, "?"),
     times |-> ListItemApp4(m)]

\* The list of one stop (lines 326-379).
StopBodyApp4(atco, rtByTrip) ==
    LET merged == MergeScheduledWithRT(TimedRows(ScheduleRowsApp4(atco)), rtByTrip)
    IN  IF Len(merged) = 0
        THEN [text |-> "No upcoming arrivals in window.", items |-> <<>>]
        ELSE [text |-> "", items |-> [i \in 1..Len(merged) |-> PageItemApp4(merged[i])]]

\* loadGTFSRTFromWorker(): the entities, or null when the fetch failed, was not
\* OK or did not parse (lines 71-100).
LoadGTFSRTFromWorker == IF rtResponse = "ok" THEN Some(rtEntities) ELSE None

\* buildRtLookup(entities) with entities possibly null (line 123).
RtByTripApp4(entities) ==
    IF IsSome(entities) THEN BuildRtLookup(Get(entities)) ELSE <<>>

\* render(): the whole handler of DOMContentLoaded.
RenderApp4 ==
    /\ pc = "app4_open"
    /\ pc' = "app4_rendered"
    /\ IF ~IsSome(geography)
       THEN /\ requests' = <<Req("geography")>>
            /\ status' = "Error loading stops.geojson.gz"
            /\ cards' = <<>>
       ELSE IF ~IsSome(geolocation)
       THEN /\ requests' = <<Req("geography"), Req("geolocation")>>
            /\ status' = "Cannot determine location (allow location and reload)"
            /\ cards' = <<>>
       ELSE LET list     == NearestApp4(Get(geography), Get(geolocation))
                entities == LoadGTFSRTFromWorker
                rtByTrip == RtByTripApp4(entities)
            IN  /\ requests' = <<Req("geography"), Req("geolocation"), Req("realtime")>>
                                \o [i \in 1..Len(list) |-> StopReq(list[i].feature.AtcoCode)]
                /\ cards' = [i \in 1..Len(list) |->
                               [atco |-> list[i].feature.AtcoCode,
                                dist |-> Some(list[i].dist),
                                rt_available |-> IsSome(entities),
                                body |-> StopBodyApp4(list[i].feature.AtcoCode, rtByTrip)]]
                /\ status' = "Done"
    /\ UNCHANGED <<rejected, pending, pageInputs, compassVars, inputVars, calVars, rows, shown>>

-----------------------------------------------------------------------------
(* p000: main *)

Digits == <<"0", "1", "2", "3", "4", "5", "6", "7", "8", "9">>

IsDigit(c) == \E d \in 1..10 : Digits[d] = c

DigitValue(c) == (CHOOSE d \in 1..10 : Digits[d] = c) - 1

\* Number(text) of a string of letters and digits: the decimal value when every
\* character is a digit (0 for the empty string), NaN otherwise.
NumberOfChars(chars) ==
    LET RECURSIVE Value(_)
        Value(n) == IF n = 0 THEN 0 ELSE 10 * Value(n - 1) + DigitValue(chars[n])
    IN  IF \A i \in 1..Len(chars) : IsDigit(chars[i]) THEN Some(Value(Len(chars)))
        ELSE None

\* code.slice(-6)
Last6(code) == SubSeq(code, IF Len(code) > 6 THEN Len(code) - 5 ELSE 1, Len(code))

\* cleanStopCode(code): "?" for an empty code, else String(Number(last six
\* characters)): the number without leading zeros, or "NaN".
CleanStopCode(code) ==
    IF code = <<>> THEN [text |-> "?", number |-> 0]
    ELSE LET n == NumberOfChars(Last6(code))
         IN  IF IsSome(n) THEN [text |-> "number", number |-> Get(n)]
             ELSE [text |-> "NaN", number |-> 0]

\* formatTime(iso): local hour and minute of the instant.
FormatTime(t) ==
    LET sod == (t + tz) % SecPerDay
    IN  <<sod \div 3600, (sod \div 60) % 60>>

\* distance(latitude, longitude, lat, lon) with lat / lon possibly NaN.
DistanceOrNaN(latitude, f) ==
    IF IsSome(ParseCoord(f.Latitude)) /\ IsSome(ParseCoord(f.Longitude))
    THEN Some(Haversine(latitude, Get(ParseCoord(f.Latitude))))
    ELSE None

\* All orders of a list.
Orders(list) ==
    LET n == Len(list)
    IN  {[i \in 1..n |-> list[f[i]]] :
            f \in {g \in [1..n -> 1..n] : \A a, b \in 1..n : a # b => g[a] # g[b]}}

\* Array.prototype.sort with (a, b) => a.distance - b.distance where a distance
\* may be NaN (None): with numbers only the sort is stable and ascending; a NaN
\* makes the comparator inconsistent and the order implementation-defined.
SortByDistOrNaN(list) ==
    IF \A i \in 1..Len(list) : IsSome(list[i].dist)
    THEN {StableSortByKey(list, [i \in 1..Len(list) |-> Get(list[i].dist)])}
    ELSE Orders(list)

\* The possible nearest stops of main (lines 103-132).
Nearest000(stops, latitude) ==
    LET Kept(f) == /\ f.AtcoCode # <<>>
                   /\ Truthy(f.Latitude)
                   /\ Truthy(f.Longitude)
        kept == SelectSeq(stops, Kept)
        distances == [i \in 1..Len(kept) |->
                        [id |-> kept[i].AtcoCode,
                         cleanId |-> CleanStopCode(kept[i].AtcoCode),
                         dist |-> DistanceOrNaN(latitude, kept[i])]]
    IN  {Slice(sorted, 5) : sorted \in SortByDistOrNaN(distances)}

\* main(): up to the start of every stop's getArrivals.  The page gets one
\* entry per nearest stop, each with an element of id arrivals-<cleanId>, and
\* every callback runs up to its await.
Main000 ==
    /\ pc = "p000_open"
    /\ IF ~IsSome(geography)
       THEN /\ requests' = <<Req("geography")>>
            /\ rejected' = TRUE
            /\ pc' = "p000_rendered"
            /\ UNCHANGED <<status, cards, pending>>
       ELSE IF ~IsSome(geolocation)
       THEN /\ requests' = <<Req("geography"), Req("geolocation")>>
            /\ status' = "Error: User denied Geolocation"
            /\ pc' = "p000_rendered"
            /\ UNCHANGED <<cards, rejected, pending>>
       ELSE \E nearest \in Nearest000(Get(geography), Get(geolocation)) :
            /\ cards' = [i \in 1..Len(nearest) |->
                           [atco |-> nearest[i].id,
                            cleanId |-> nearest[i].cleanId,
                            dist |-> nearest[i].dist,
                            body |-> [text |-> "Loading arrivals...", items |-> <<>>]]]
            /\ requests' = <<Req("geography"), Req("geolocation")>>
                            \o [i \in 1..Len(nearest) |-> StopReq(nearest[i].id)]
            /\ pending' = 1..Len(nearest)
            /\ pc' = IF nearest = <<>> THEN "p000_rendered" ELSE "p000_fetching"
            /\ UNCHANGED <<status, rejected>>
    /\ UNCHANGED <<pageInputs, compassVars, inputVars, calVars, rows, shown>>

\* document.getElementById('arrivals-' + cleanId): the first element with the id.
ElementById000(cleanId) ==
    CHOOSE j \in 1..Len(cards) :
        /\ cards[j].cleanId = cleanId
        /\ \A k \in 1..Len(cards) : cards[k].cleanId = cleanId => j <= k

\* What a callback writes once getArrivals has settled (lines 153-169).
ArrivalsBody000(response) ==
    IF ~IsSome(response)
    THEN [text |-> "Error loading arrivals", items |-> <<>>]
    ELSE IF Get(response) = <<>>
    THEN [text |-> "No upcoming arrivals", items |-> <<>>]
    ELSE [text |-> "",
          items |-> [k \in 1..Len(Get(response)) |->
                        [Line |-> Get(response)[k].Line,
                         Destination |-> Get(response)[k].DestinationName,
                         at |-> FormatTime(Get(response)[k].ExpectedArrival)]]]

\* The callback of the i-th nearest stop resumes after its fetch has settled.
\* Its element was looked up before the await, when the page already held
\* every entry.
ArrivalsSettled000(i) ==
    /\ pc = "p000_fetching"
    /\ i \in pending
    /\ cards' = [cards EXCEPT ![ElementById000(cards[i].cleanId)].body =
                                  ArrivalsBody000(stopJson[cards[i].atco])]
    /\ pending' = pending \ {i}
    /\ pc' = IF pending' = {} THEN "p000_rendered" ELSE pc
    /\ UNCHANGED <<requests, status, rejected, pageInputs, compassVars, inputVars, calVars,
                   rows, shown>>

-----------------------------------------------------------------------------
(* app4c and p006: renderStops *)

\* getDistanceAndBearing(...).distance: Math.round(R * c), NaN when the user's or
\* the stop's latitude or longitude is NaN.
DistanceAndBearing(userLat, f) ==
    IF IsSome(userLat) /\ IsSome(ParseCoord(f.Latitude)) /\ IsSome(ParseCoord(f.Longitude))
    THEN Some(RoundMetres(Haversine(Get(userLat), Get(ParseCoord(f.Latitude)))))
    ELSE None

\* features.map(...).sort((a,b) => a.distance - b.distance).slice(0,5), with
\* DistOf(f) the distance given to feature f.
NearestStops(features, distances) ==
    LET stopsWithDistance ==
            [i \in 1..Len(features) |-> [feature |-> features[i], dist |-> distances[i]]]
    IN  {Slice(sorted, 5) : sorted \in SortByDistOrNaN(stopsWithDistance)}

\* app4c loadScheduledTrips(): trip_id -> route and headsign of trips.txt.gz.
LoadScheduledTrips ==
    [t \in DOMAIN trips |-> [route |-> RouteOf(t), headsign |-> HeadsignOf(t)]]

\* app4c loadRealtimeTrips(): data.arrivals, or [] after any failure.
LoadRealtimeTripsApp4c == IF rtResponse = "ok" THEN rtEntities ELSE <<>>

\* app4c: the <li> of every realtime arrival (lines 684-689).
ItemsApp4c(realtimeArrivals, scheduledMapping) ==
    [k \in 1..Len(realtimeArrivals) |->
        IF realtimeArrivals[k].Line \in DOMAIN scheduledMapping
        THEN scheduledMapping[realtimeArrivals[k].Line]
        ELSE [route |-> realtimeArrivals[k].Line,
              headsign |-> realtimeArrivals[k].Destination]]

\* app4c renderStops(): the whole handler.  A failed geolocation is replaced
\* by the coordinates of the first stop of the file.
RenderStopsApp4c ==
    /\ pc = "app4c_open"
    /\ pc' = "app4c_rendered"
    /\ IF ~IsSome(geography)
       THEN /\ requests' = <<Req("geography")>>
            /\ rejected' = TRUE
            /\ UNCHANGED cards
       ELSE IF ~IsSome(geolocation) /\ Get(geography) = <<>>
       THEN /\ requests' = <<Req("geography"), Req("geolocation")>>
            /\ rejected' = TRUE
            /\ UNCHANGED cards
       ELSE LET features == Get(geography)
                userLat  == IF IsSome(geolocation) THEN geolocation
                            ELSE IF IsSome(ParseCoord(features[1].Longitude))
                                 THEN ParseCoord(features[1].Latitude)
                                 ELSE None
                DistOf(f) == DistanceAndBearing(userLat, f)
                items    == ItemsApp4c(LoadRealtimeTripsApp4c, LoadScheduledTrips)
            IN  \E nearestStops \in NearestStops(features,
                    [place \in DOMAIN features |-> DistOf(features[place])]) :
                /\ requests' = <<Req("geography"), Req("geolocation"), Req("realtime"),
                                 Req("trips.txt.gz")>>
                /\ cards' = [i \in 1..Len(nearestStops) |->
                               [atco |-> nearestStops[i].feature.AtcoCode,
                                dist |-> nearestStops[i].dist,
                                body |-> [text |-> "", items |-> items]]]
                /\ UNCHANGED rejected
    /\ UNCHANGED <<status, pending, pageInputs, compassVars, inputVars, calVars, rows, shown>>

\* p006 loadStops(): the features, or none after any failure (lines 35-47).
LoadStops006 == IF IsSome(geography) THEN Get(geography) ELSE <<>>

\* The time of day, in UTC, of toISOString().
IsoTimeOfDay(t) ==
    LET sod == t % SecPerDay
    IN  <<sod \div 3600, (sod \div 60) % 60, sod % 60>>

\* p006 loadRealtimeTrips(): tripsByStop, stop_id -> the trips calling there in
\* feed order, or {} after any failure (lines 65-102).
LoadRealtimeTrips006 ==
    LET entity == IF rtResponse = "ok" THEN rtEntities ELSE <<>>
        Updates(e) == IF IsSome(e.trip_update) THEN Get(e.trip_update).stop_time_update
                      ELSE <<>>
        Field(e, name) == IF IsSome(Get(e.trip_update).trip)
                          THEN Get(Get(e.trip_update).trip)[name] ELSE None
        Entry(e, stu) ==
            [trip_id |-> OrPlaceholder(Field(e, "trip_id"), "unknown"),
             route_id |-> OrPlaceholder(Field(e, "route_id"), "Unknown"),
             headsign |-> OrPlaceholder(Field(e, "headsign"), "Unknown"),
             arrival_time |-> IF IsSome(EventTime(stu.arrival))
                              THEN Some(IsoTimeOfDay(Get(EventTime(stu.arrival))))
                              ELSE None]
        RECURSIVE AtStop(_, _)
        AtStop(stop, i) ==
            IF i > Len(entity) THEN <<>>
            ELSE LET here == SelectSeq(Updates(entity[i]), LAMBDA stu : stu.stop_id = stop)
                 IN  [k \in 1..Len(here) |-> Entry(entity[i], here[k])] \o AtStop(stop, i + 1)
        stopIds == UNION {{Updates(entity[i])[k].stop_id : k \in 1..Len(Updates(entity[i]))} :
                             i \in 1..Len(entity)}
    IN  [stop \in stopIds |-> AtStop(stop, 1)]

\* p006: the <li> of the stop's trips, the first of every trip_id (lines 153-169).
Items006(stopTrips) ==
    LET uniq == FirstOfEachKey(stopTrips, [k \in 1..Len(stopTrips) |-> stopTrips[k].trip_id])
    IN  [k \in 1..Len(uniq) |->
            [route |-> uniq[k].route_id, headsign |-> uniq[k].headsign,
             realtime |-> uniq[k].arrival_time]]

\* p006 renderStops(): the whole handler.  Neither a failed geography fetch nor
\* a failed geolocation ends it.
RenderStops006 ==
    /\ pc = "p006_open"
    /\ pc' = "p006_rendered"
    /\ LET DistOf(f) == IF ~IsSome(geolocation) THEN Some(0)
                        ELSE DistanceAndBearing(geolocation, f)
           realtimeTrips == LoadRealtimeTrips006
       IN  \E nearestStops \in NearestStops(LoadStops006,
                    [place \in DOMAIN LoadStops006 |-> DistOf(LoadStops006[place])]) :
           /\ requests' = <<Req("geography"), Req("geolocation"), Req("realtime")>>
           /\ cards' = [i \in 1..Len(nearestStops) |->
                          LET atco == nearestStops[i].feature.AtcoCode
                          IN  [atco |-> atco,
                               dist |-> nearestStops[i].dist,
                               body |-> [text |-> "",
                                         items |-> IF atco \in DOMAIN realtimeTrips
                                                   THEN Items006(realtimeTrips[atco])
                                                   ELSE <<>>]]]
    /\ UNCHANGED <<status, rejected, pending, pageInputs, compassVars, inputVars, calVars, rows, shown>>

-----------------------------------------------------------------------------
(* p007 and p005: renderStops *)

\* p007 loadStopJson(atco): the rows of the stop file, or null (lines 41-50).
LoadStopJson007(atco) ==
    IF atco \in DOMAIN stopJson THEN stopJson[atco] ELSE None

\* The rows of a stop file whose fields are all present, as plain values.
PlainRows(schedule) ==
    [k \in 1..Len(schedule) |->
        [schedule[k] EXCEPT !.arrival_time = Get(@), !.route_short = Get(@),
                            !.trip_headsign = Get(@)]]

\* p007: the <li> of the merged arrivals of one stop (lines 135-166).
Items007(atco, feed) ==
    LET scheduled == LoadStopJson007(atco)
        merged == MergeArrivals007(atco,
                      IF IsSome(scheduled) THEN PlainRows(Get(scheduled)) ELSE <<>>, feed)
    IN  [k \in 1..Len(merged) |->
            [route |-> merged[k].route_short,
             expected |-> merged[k].expected_time,
             scheduled |-> merged[k].scheduled_time]]

\* p007 renderStops(): the whole handler.  One try block holds everything, its
\* catch writes to the console only.
RenderStops007 ==
    /\ pc = "p007_open"
    /\ pc' = "p007_rendered"
    /\ IF ~IsSome(geography)
       THEN requests' = <<Req("geography")>> /\ UNCHANGED cards
       ELSE IF rtResponse # "ok"
       THEN requests' = <<Req("geography"), Req("realtime")>> /\ UNCHANGED cards
       ELSE IF ~IsSome(geolocation)
       THEN /\ requests' = <<Req("geography"), Req("realtime"), Req("geolocation")>>
            /\ UNCHANGED cards
       ELSE LET DistOf(f) == DistanceAndBearing(geolocation, f)
            IN  \E nearestStops \in NearestStops(Get(geography),
                    [place \in DOMAIN Get(geography) |-> DistOf(Get(geography)[place])]) :
                /\ requests' = <<Req("geography"), Req("realtime"), Req("geolocation")>>
                                \o [i \in 1..Len(nearestStops) |->
                                       StopReq(nearestStops[i].feature.AtcoCode)]
                /\ cards' = [i \in 1..Len(nearestStops) |->
                               [atco |-> nearestStops[i].feature.AtcoCode,
                                dist |-> nearestStops[i].dist,
                                body |-> [text |-> "",
                                          items |-> Items007(nearestStops[i].feature.AtcoCode,
                                                             rtEntities)]]]
    /\ UNCHANGED <<status, rejected, pending, pageInputs, compassVars, inputVars, calVars, rows, shown>>

\* p005 getArrivalsForStop(stopId, entities) reads e.tripUpdate.trip.routeId:
\* it throws on an entity that calls at the stop and has no trip block.
Throws005(stopId, entities) ==
    \E i \in 1..Len(entities) :
        /\ IsSome(entities[i].tripUpdate)
        /\ ~IsSome(Get(entities[i].tripUpdate).trip)
        /\ \E k \in 1..Len(Get(entities[i].tripUpdate).stopTimeUpdate) :
              LET stu == Get(entities[i].tripUpdate).stopTimeUpdate[k]
              IN  stu.stopId = stopId /\ IsSome(stu.arrival)

\* p005 getArrivalsForStop(stopId, entities) when it does not throw (lines 43-59).
GetArrivalsForStop(stopId, entities) ==
    LET RECURSIVE From(_)
        From(i) ==
            IF i > Len(entities) THEN <<>>
            ELSE IF ~IsSome(entities[i].tripUpdate) THEN From(i + 1)
            ELSE LET tu   == Get(entities[i].tripUpdate)
                     here == SelectSeq(tu.stopTimeUpdate,
                                 LAMBDA stu : stu.stopId = stopId /\ IsSome(stu.arrival))
                 IN  [k \in 1..Len(here) |->
                        [route |-> Get(tu.trip).routeId,
                         headsign |-> OrPlaceholder(Get(tu.trip).tripHeadsign, ""),
                         at |-> FormatTimeFromDate(Get(Get(here[k].arrival).time))]]
                     \o From(i + 1)
    IN  From(1)

\* p005 renderStops(): the whole handler.  Nothing in it is guarded: a failure
\* of any await, or a throw in the loop, ends it with an unhandled rejection.
RenderStops005 ==
    /\ pc = "p005_open"
    /\ pc' = "p005_rendered"
    /\ IF ~IsSome(geography)
       THEN requests' = <<Req("geography")>> /\ rejected' = TRUE /\ UNCHANGED cards
       ELSE IF ~IsSome(geolocation)
       THEN /\ requests' = <<Req("geography"), Req("geolocation")>>
            /\ rejected' = TRUE
            /\ UNCHANGED cards
       ELSE IF rtResponse # "ok"
       THEN /\ requests' = <<Req("geography"), Req("geolocation"), Req("realtime")>>
            /\ rejected' = TRUE
            /\ UNCHANGED cards
       ELSE LET DistOf(f) == DistanceAndBearing(geolocation, f)
            IN  \E nearestStops \in NearestStops(Get(geography),
                    [place \in DOMAIN Get(geography) |-> DistOf(Get(geography)[place])]) :
                LET AtcoOf(i) == nearestStops[i].feature.AtcoCode
                    thrown == {i \in 1..Len(nearestStops) : Throws005(AtcoOf(i), rtEntities)}
                    done   == IF thrown = {} THEN Len(nearestStops)
                              ELSE (CHOOSE i \in thrown : \A j \in thrown : i <= j) - 1
                IN  /\ requests' = <<Req("geography"), Req("geolocation"), Req("realtime")>>
                    /\ cards' = [i \in 1..done |->
                                   [atco |-> AtcoOf(i),
                                    dist |-> nearestStops[i].dist,
                                    body |-> [text |-> "",
                                              items |-> GetArrivalsForStop(AtcoOf(i),
                                                                           rtEntities)]]]
                    /\ rejected' = (thrown # {})
    /\ UNCHANGED <<status, pending, pageInputs, compassVars, inputVars, calVars, rows, shown>>

-----------------------------------------------------------------------------
(* p004: init *)

\* init() up to the end of loadGTFSMapping (lines 190-194): the geography, then
\* trips.txt.gz, calendar.txt and calendar_dates.txt, each fetched once.  Any
\* failure goes to the catch of init, which shows it.
Init004Mapping ==
    /\ pc = "p004_open"
    /\ IF ~IsSome(geography)
       THEN /\ requests' = <<Req("geography")>>
            /\ status' = "Error: geography"
            /\ pc' = "p004_rendered"
            /\ UNCHANGED <<tripsMap, serviceMap, exceptionsMap>>
       ELSE /\ requests' = <<Req("geography"), Req("trips.txt.gz"), Req("calendar.txt"),
                             Req("calendar_dates.txt")>>
            /\ status' = "Loading GTFS mapping"
            /\ tripsMap' = trips
            /\ serviceMap' = ServiceMap004
            /\ exceptionsMap' = ExceptionsMap004
            /\ pc' = "p004_mapped"
    /\ UNCHANGED <<cards, rejected, pending, pageInputs, compassVars, inputVars, validServiceIds,
                   tripToService, dayMap, calLayout, rows, shown>>

\* p004 loadStopJson(atco): the rows of the stop file whose service runs today,
\* or [] after any failure (lines 143-154).
LoadStopJsonPage004(atco) ==
    IF atco \in DOMAIN stopJson /\ IsSome(stopJson[atco])
    THEN LoadStopJson004(PlainRows(Get(stopJson[atco])))
    ELSE <<>>

\* p004: the <li> of one stop (lines 163-184).
StopBody004(atco) ==
    LET uniqueArrivals == Dedupe004(SelectSeq(LoadStopJsonPage004(atco), InWindow004))
    IN  IF Len(uniqueArrivals) = 0
        THEN [text |-> "No upcoming arrivals", items |-> <<>>]
        ELSE [text |-> "",
              items |-> [k \in 1..Len(uniqueArrivals) |->
                            [route |-> uniqueArrivals[k].route_short,
                             headsign |-> uniqueArrivals[k].trip_headsign,
                             at |-> uniqueArrivals[k].arrival_time]]]

\* init() from the geolocation request on (lines 196-203), with renderStops and
\* getNearestStops: the distances are not rounded.
Init004Render ==
    /\ pc = "p004_mapped"
    /\ pc' = "p004_rendered"
    /\ IF ~IsSome(geolocation)
       THEN /\ requests' = requests \o <<Req("geolocation")>>
            /\ status' = "Error: geolocation"
            /\ UNCHANGED cards
       ELSE LET DistOf(f) == DistanceOrNaN(Get(geolocation), f)
            IN  \E nearest \in NearestStops(Get(geography),
                    [place \in DOMAIN Get(geography) |-> DistOf(Get(geography)[place])]) :
                /\ requests' = requests \o <<Req("geolocation")>> \o StopRequests(nearest)
                /\ cards' = [i \in 1..Len(nearest) |->
                               [atco |-> nearest[i].feature.AtcoCode,
                                dist |-> nearest[i].dist,
                                body |-> StopBody004(nearest[i].feature.AtcoCode)]]
                /\ status' = "Done"
    /\ UNCHANGED <<rejected, pending, pageInputs, compassVars, inputVars, calVars, rows, shown>>

-----------------------------------------------------------------------------
(* p001c: renderStops with a geography that may hold unusable coordinates *)

\* The number Infinity: above every distance.
Infinity == 1000000000

\* The distance given to a feature (lines 292-301).
Distance001c(userLat, f) ==
    IF ~IsSome(ParseCoord(f.Latitude)) \/ ~IsSome(ParseCoord(f.Longitude))
    THEN Some(Infinity)
    ELSE DistanceAndBearing(userLat, f)

\* The list of one stop (lines 308-344); filterArrivals keeps every row.
StopBody001c(atco) ==
    LET arrivals == IF atco \in DOMAIN stopJson /\ IsSome(stopJson[atco])
                    THEN Get(stopJson[atco]) ELSE <<>>
    IN  IF Len(arrivals) = 0
        THEN [text |-> "No arrivals found (or data not available).", items |-> <<>>]
        ELSE [text |-> "",
              items |-> [k \in 1..Len(arrivals) |->
                            [route |-> OrPlaceholder(arrivals[k].route_short, "?"),
                             headsign |-> OrPlaceholder(arrivals[k].trip_headsign, "?"),
                             at |-> arrivals[k].arrival_time]]]

\* renderStops(): the whole handler.
RenderStops001c ==
    /\ pc = "p001c_open"
    /\ pc' = "p001c_rendered"
    /\ IF ~IsSome(geography)
       THEN requests' = <<Req("geography")>> /\ UNCHANGED <<status, cards>>
       ELSE IF ~IsSome(geolocation)
       THEN /\ requests' = <<Req("geography"), Req("geolocation")>>
            /\ status' = "Cannot determine location."
            /\ UNCHANGED cards
       ELSE LET DistOf(f) == Distance001c(geolocation, f)
            IN  \E nearestStops \in NearestStops(Get(geography),
                    [place \in DOMAIN Get(geography) |-> DistOf(Get(geography)[place])]) :
                /\ requests' = <<Req("geography"), Req("geolocation")>>
                                \o [i \in 1..Len(nearestStops) |->
                                       StopReq(nearestStops[i].feature.AtcoCode)]
                /\ cards' = [i \in 1..Len(nearestStops) |->
                               [atco |-> nearestStops[i].feature.AtcoCode,
                                dist |-> nearestStops[i].dist,
                                body |-> StopBody001c(nearestStops[i].feature.AtcoCode)]]
                /\ UNCHANGED status
    /\ UNCHANGED <<rejected, pending, pageInputs, compassVars, inputVars, calVars, rows, shown>>

-----------------------------------------------------------------------------
(* app: renderStops *)

\* processArrivals(arrivals, serviceDayMap, trips): the rows annotated with the
\* days of their trip's service, the first of every route + headsign + time +
\* days, by arrival_time (lines 99-120).
ProcessArrivals(arrivals, serviceDayMap, tripRows) ==
    LET DaysOf(a) == IF a.trip_id \in DOMAIN tripRows
                        /\ tripRows[a.trip_id] \in DOMAIN serviceDayMap
                     THEN serviceDayMap[tripRows[a.trip_id]] ELSE <<>>
        annotated == [k \in 1..Len(arrivals) |->
                        [route |-> arrivals[k].route_short,
                         headsign |-> arrivals[k].trip_headsign,
                         at |-> arrivals[k].arrival_time,
                         days |-> DaysOf(arrivals[k])]]
        grouped == FirstOfEachKey(annotated, annotated)
    IN  StableSortByKey(grouped, [k \in 1..Len(grouped) |-> TimeStringKey(grouped[k].at)])

\* renderStops(): the whole handler.  loadGTFSMapping and loadCSV('trips.txt.gz')
\* run once, after the ranking and before the loop; trips.txt.gz is read as
\* text, which gives the trips only when the server declares the compression.
RenderStopsApp ==
    /\ pc = "app_open"
    /\ pc' = "app_rendered"
    /\ IF ~IsSome(geography)
       THEN /\ requests' = <<Req("geography")>>
            /\ rejected' = TRUE
            /\ UNCHANGED <<status, cards, dayMap, calLayout>>
       ELSE IF ~IsSome(geolocation)
       THEN /\ requests' = <<Req("geography"), Req("geolocation")>>
            /\ status' = "Cannot determine location"
            /\ UNCHANGED <<rejected, cards, dayMap, calLayout>>
       ELSE LET DistOf(f) == DistanceAndBearing(geolocation, f)
            IN  \E nearestStops \in NearestStops(Get(geography),
                    [place \in DOMAIN Get(geography) |-> DistOf(Get(geography)[place])]) :
                \E trailing \in BOOLEAN, decoded \in BOOLEAN :
                /\ calLayout' = [order |-> "by_name", trailing_newline |-> trailing]
                /\ IF trailing
                   THEN /\ requests' = <<Req("geography"), Req("geolocation"),
                                         Req("calendar.txt"), Req("calendar_dates.txt")>>
                        /\ rejected' = TRUE
                        /\ UNCHANGED <<status, cards, dayMap>>
                   ELSE LET serviceDayMap == ApplyExceptionRows(CalendarDaysApp, exRows, tz)
                            tripRows == IF decoded THEN trips ELSE <<>>
                            Body(atco) ==
                                [text |-> "",
                                 items |-> IF atco \in DOMAIN stopJson /\ IsSome(stopJson[atco])
                                           THEN ProcessArrivals(PlainRows(Get(stopJson[atco])),
                                                                serviceDayMap, tripRows)
                                           ELSE <<>>]
                        IN  /\ dayMap' = serviceDayMap
                            /\ requests' = <<Req("geography"), Req("geolocation"),
                                             Req("calendar.txt"), Req("calendar_dates.txt"),
                                             Req("trips.txt.gz")>>
                                            \o StopRequests(nearestStops)
                            /\ cards' = [i \in 1..Len(nearestStops) |->
                                           [atco |-> nearestStops[i].feature.AtcoCode,
                                            dist |-> nearestStops[i].dist,
                                            body |-> Body(nearestStops[i].feature.AtcoCode)]]
                            /\ UNCHANGED <<status, rejected>>
    /\ UNCHANGED <<pending, pageInputs, compassVars, inputVars, validServiceIds, tripToService,
                   serviceMap, exceptionsMap, tripsMap, rows, shown>>

-----------------------------------------------------------------------------
(* p002: renderStops *)

\* renderStops() up to the end of loadGTFSMapping(): no call is guarded.
RenderStops002Mapping ==
    /\ pc = "p002_open"
    /\ IF ~IsSome(geography)
       THEN /\ requests' = <<Req("geography")>>
            /\ rejected' = TRUE
            /\ pc' = "p002_rendered"
            /\ UNCHANGED <<tripToService, validServiceIds>>
       ELSE IF ~IsSome(geolocation)
       THEN /\ requests' = <<Req("geography"), Req("geolocation")>>
            /\ rejected' = TRUE
            /\ pc' = "p002_rendered"
            /\ UNCHANGED <<tripToService, validServiceIds>>
       ELSE /\ requests' = <<Req("geography"), Req("geolocation"), Req("trips.txt.gz"),
                             Req("calendar.txt"), Req("calendar_dates.txt")>>
            /\ tripToService' = trips
            /\ validServiceIds' = ValidServiceIds002
            /\ pc' = "p002_mapped"
            /\ UNCHANGED rejected
    /\ UNCHANGED <<status, cards, pending, pageInputs, compassVars, inputVars, serviceMap,
                   exceptionsMap, tripsMap, dayMap, calLayout, rows, shown>>

\* The list of one stop: filterArrivals of the stop's rows, or nothing.
StopBody002(atco) ==
    LET filteredArrivals ==
            IF atco \in DOMAIN stopJson /\ IsSome(stopJson[atco])
            THEN FilterArrivals002(PlainRows(Get(stopJson[atco])))
            ELSE <<>>
    IN  [text |-> "",
         items |-> [k \in 1..Len(filteredArrivals) |->
                       [route |-> filteredArrivals[k].route_short,
                        headsign |-> filteredArrivals[k].trip_headsign,
                        at |-> filteredArrivals[k].arrival_time]]]

\* renderStops() from the loop on; the ranking was made before the mapping.
RenderStops002Loop ==
    /\ pc = "p002_mapped"
    /\ pc' = "p002_rendered"
    /\ LET DistOf(f) == DistanceAndBearing(geolocation, f)
       IN  \E nearestStops \in NearestStops(Get(geography),
                    [place \in DOMAIN Get(geography) |-> DistOf(Get(geography)[place])]) :
           /\ requests' = requests \o StopRequests(nearestStops)
           /\ cards' = [i \in 1..Len(nearestStops) |->
                          [atco |-> nearestStops[i].feature.AtcoCode,
                           dist |-> nearestStops[i].dist,
                           body |-> StopBody002(nearestStops[i].feature.AtcoCode)]]
    /\ UNCHANGED <<status, rejected, pending, pageInputs, compassVars, inputVars, calVars,
                   rows, shown>>

-----------------------------------------------------------------------------
(* p001a: init and renderStops *)

\* loadStopJson(atco): the rows, [] after a failure (lines 48-57).
LoadStopJson001a(atco) ==
    IF atco \in DOMAIN stopJson /\ IsSome(stopJson[atco]) THEN Get(stopJson[atco]) ELSE <<>>

\* a.arrival_time.split(':') of a row without arrival_time throws (line 88).
Throws001a(atco) ==
    \E k \in 1..Len(LoadStopJson001a(atco)) : ~IsSome(LoadStopJson001a(atco)[k].arrival_time)

\* The .arrivals element of one stop (lines 85-98); a field the row lacks is
\* written as "undefined".
StopBody001a(atco) ==
    LET unique == Dedupe001(SelectSeq(TimedRows(LoadStopJson001a(atco)), InWindow001))
    IN  IF Len(unique) = 0
        THEN [text |-> "No arrivals soon", items |-> <<>>]
        ELSE [text |-> "",
              items |-> [k \in 1..Len(unique) |->
                            [route |-> OrPlaceholder(unique[k].route_short, "undefined"),
                             headsign |-> OrPlaceholder(unique[k].trip_headsign, "undefined"),
                             at |-> unique[k].arrival_time]]]

\* init(): getLocation, then renderStops; whatever is thrown ends in the one catch.
Init001a ==
    /\ pc = "p001a_open"
    /\ pc' = "p001a_rendered"
    /\ IF ~IsSome(geolocation)
       THEN /\ requests' = <<Req("geolocation")>>
            /\ status' = "Cannot determine your location. Please allow location access."
            /\ UNCHANGED cards
       ELSE IF ~IsSome(geography)
       THEN /\ requests' = <<Req("geolocation"), Req("geography")>>
            /\ status' = "Cannot determine your location. Please allow location access."
            /\ UNCHANGED cards
       ELSE LET DistOf(f) == DistanceOrNaN(Get(geolocation), f)
            IN  \E nearest \in NearestStops(Get(geography),
                    [place \in DOMAIN Get(geography) |-> DistOf(Get(geography)[place])]) :
                LET thrown == {i \in 1..Len(nearest) : Throws001a(nearest[i].feature.AtcoCode)}
                    reached == IF thrown = {} THEN Len(nearest)
                               ELSE CHOOSE i \in thrown : \A j \in thrown : i <= j
                IN  /\ requests' = <<Req("geolocation"), Req("geography")>>
                                    \o [i \in 1..reached |->
                                           StopReq(nearest[i].feature.AtcoCode)]
                    /\ cards' = [i \in 1..reached |->
                                   [atco |-> nearest[i].feature.AtcoCode,
                                    dist |-> nearest[i].dist,
                                    body |-> IF i \in thrown
                                             THEN [text |-> "Loading", items |-> <<>>]
                                             ELSE StopBody001a(nearest[i].feature.AtcoCode)]]
                    /\ status' = IF thrown = {} THEN ""
                                 ELSE "Cannot determine your location. Please allow location access."
    /\ UNCHANGED <<rejected, pending, pageInputs, compassVars, inputVars, calVars, rows, shown>>

-----------------------------------------------------------------------------
(* The whole page: inputs *)

\* Longest geography file of the ranking cases.
MaxStops == 6

\* Longest geography file of the cases with an unusable coordinate.
MaxBadStops == 3

\* The page scripts.
PageScripts ==
    {"app4_open", "p000_open", "app4c_open", "p006_open", "p007_open", "p005_open",
     "p004_open", "p001c_open", "app_open", "p002_open",
     "p001a_open"}

\* AtcoCodes 8220DB0000NN and 8230DB0000NN: two areas number their stops alike.
Atco(area, n) ==
    <<"8", "2", area, "0", "D", "B", "0", "0", "0", "0",
      Digits[(n \div 10) + 1], Digits[(n % 10) + 1]>>

\* The i-th stop of a geography file: stop 4 lies in the other area and shares
\* its last six digits with stop 3.
CodeAt(i) == IF i = 4 THEN Atco("3", 13) ELSE Atco("2", 10 + i)

Coord(n) == [kind |-> "number", value |-> n]
BadCoords == {[kind |-> "garbage", value |-> 0], [kind |-> "missing", value |-> 0]}

Feature(i, lat) ==
    [AtcoCode |-> CodeAt(i), Latitude |-> lat, Longitude |-> Coord(0)]

\* Geography files of n stops with latitudes from a set.
Geographies(n, lats) == {[i \in 1..n |-> Feature(i, f[i])] : f \in [1..n -> lats]}

\* Stops 4.1 m, 4.4 m and 10.0 m north of the equator.
StopLatitudes == {Coord(37), Coord(40), Coord(90)}

\* The user stands south of every stop, or level with the middle ones.
UserLatitudes == {0, 40}

\* Every coordinate is usable: files of up to MaxStops stops.
RankingGeographies == UNION {Geographies(n, StopLatitudes) : n \in 0..MaxStops}

\* Some coordinate is unusable: short files ...
BadGeographies ==
    {g \in UNION {Geographies(n, StopLatitudes \cup BadCoords) : n \in 1..MaxBadStops} :
        \E i \in 1..Len(g) : g[i].Latitude \in BadCoords}

\* ... and files of MAX_NEARBY usable stops, farther and farther away, with one
\* unusable stop put in at any place (for the pages that fetch stop after stop).
CrowdedGeographies ==
    {[i \in 1..(MAX_NEARBY + 1) |->
        Feature(i, IF i = k THEN bad
                   ELSE Coord(20 * (IF i < k THEN i ELSE i - 1)))] :
        k \in 1..(MAX_NEARBY + 1), bad \in BadCoords}

\* Two stops whose codes share the last six digits, or not, near the user.
FailureGeographies ==
    {<<Feature(i, Coord(37)), Feature(j, Coord(90))>> : i, j \in {1, 3, 4}}
        \ {<<Feature(i, Coord(37)), Feature(i, Coord(90))>> : i \in {1, 3, 4}}

\* One row of a stop file, 15 or 30 minutes ahead.
PageRow(t) ==
    [trip_id |-> t,
     arrival_time |-> Some(IF t = "T1" THEN <<10, 15, 0>> ELSE <<10, 30, 0>>),
     route_short |-> Some(RouteOf(t)), trip_headsign |-> Some(HeadsignOf(t)),
     stop_id |-> None, stop_sequence |-> StopSequence]

\* One arrival of the worker's per-stop answer.
WorkerArrival(line) ==
    [Line |-> line, DestinationName |-> "City", ExpectedArrival |-> now + 600]

\* What a stop's own fetch can bring: a failure, an empty answer, or one row.
\* A row that lacks its arrival_time, or its route and headsign.
RowWithout(t, field) ==
    IF field = "arrival_time" THEN [PageRow(t) EXCEPT !.arrival_time = None]
    ELSE [PageRow(t) EXCEPT !.route_short = None, !.trip_headsign = None]

\* The scripts that are given rows with missing fields.
ReadsMalformedRows(script) == script \in {"app4_open", "p001a_open"}

StopResponses(script) ==
    IF script = "p000_open"
    THEN {None, Some(<<>>), Some(<<WorkerArrival("R1")>>), Some(<<WorkerArrival("R2")>>)}
    ELSE {None, Some(<<>>), Some(<<PageRow("T1")>>), Some(<<PageRow("T2")>>)}
         \cup (IF ReadsMalformedRows(script)
               THEN {Some(<<RowWithout("T1", "arrival_time"), PageRow("T2")>>),
                     Some(<<RowWithout("T1", "route")>>)}
               ELSE {})

CodesOf(g) == {g[i].AtcoCode : i \in 1..Len(g)}

\* app4: trip T1 runs a minute late at the stop of every file.
FeedApp4 ==
    <<[trip_id |-> "T1", start_date |-> None,
       stop_time_update |->
           <<StopTimeUpdate("seq", <<Some([time |-> None, delay |-> Some(60)]), None>>)>>]>>

\* app4c: the worker answers {arrivals: [{Line, Destination}]}.
FeedApp4c == <<[Line |-> "R1", Destination |-> "City"]>>

\* A trip block of an entity: complete, without route and headsign, or absent.
TripBlocks ==
    {Some([trip_id |-> Some("T1"), route_id |-> Some("R1"), headsign |-> Some("H1")]),
     Some([trip_id |-> Some("T1"), route_id |-> None, headsign |-> None]),
     None}

\* p006: one entity whose trip calls at stops 1 and 3 of the file, the second
\* call without a time; or an entity without trip_update.
Feeds006 ==
    {<<[trip_update |-> Some([trip |-> trip,
                              stop_time_update |->
                                  <<[stop_id |-> CodeAt(1),
                                     arrival |-> Some([time |-> Some(RtTime), delay |-> None])],
                                    [stop_id |-> CodeAt(3), arrival |-> None]>>])]>> :
        trip \in TripBlocks}
    \cup {<<[trip_update |-> None]>>}

\* p007: the worker answers {arrivals: [entity]}; the trip calls at stop 1 of
\* the file.
Feed007 ==
    <<[trip_id |-> "T1", start_date |-> None,
       stop_time_update |->
           <<[stop_id |-> Some(CodeAt(1)), stop_sequence |-> None,
              arrival |-> Some([time |-> Some(RtTime), delay |-> None]),
              departure |-> None,
              trip |-> Some([trip_id |-> "T1", route_id |-> "R1"])]>>]>>

\* p005: one entity whose trip calls at stop 1 of the file, with or without
\* its trip block; or an entity without tripUpdate.
Feeds005 ==
    {<<[tripUpdate |-> Some([trip |-> trip,
                             stopTimeUpdate |->
                                 <<[stopId |-> CodeAt(1),
                                    arrival |-> Some([time |-> Some(RtTime)])]>>])]>> :
        trip \in {Some([routeId |-> "R1", tripHeadsign |-> Some("H1")]),
                  Some([routeId |-> "R1", tripHeadsign |-> None]),
                  None}}
    \cup {<<[tripUpdate |-> None]>>}

\* What the realtime feed can hold, in the shape each page reads.
PageFeeds(script) ==
    CASE script = "app4_open" -> {FeedApp4}
      [] script = "app4c_open" -> {FeedApp4c}
      [] script = "p006_open" -> Feeds006
      [] script = "p007_open" -> {Feed007}
      [] script = "p005_open" -> Feeds005
      [] OTHER -> {<<>>}

InitPage ==
    /\ pc \in PageScripts
    /\ tz = 0
    /\ now = OpenedAt(tz)
    /\ \/ \* ranking: everything answers, the stops have nothing to show
          /\ \E g \in RankingGeographies \cup BadGeographies
                        \cup (IF pc = "p000_open" THEN {} ELSE CrowdedGeographies) :
                /\ geography = Some(g)
                /\ stopJson = [c \in CodesOf(g) |-> Some(<<>>)]
          /\ geolocation \in {Some(lat) : lat \in UserLatitudes}
          /\ rtResponse = "ok"
          /\ rtEntities = <<>>
       \/ \* failures: any of the fetches and the geolocation may fail
          /\ \E g \in FailureGeographies :
                /\ geography \in {None, Some(g)}
                /\ stopJson \in [CodesOf(g) -> StopResponses(pc)]
          /\ geolocation \in {None, Some(0)}
          /\ rtResponse \in {"ok", "failed"}
          /\ rtEntities \in PageFeeds(pc)
    /\ calendar = [sid \in Services |-> FullYear(MonFri)]
    /\ exRows = <<>>
    /\ trips = DefaultTrips
    /\ calLayout = NotFetched
    /\ validServiceIds = {}
    /\ tripToService = <<>>
    /\ serviceMap = <<>>
    /\ exceptionsMap = <<>>
    /\ tripsMap = <<>>
    /\ dayMap = <<>>
    /\ scheduleRows = <<>>
    /\ rows = <<>>
    /\ shown = <<>>
    /\ requests = <<>>
    /\ status = ""
    /\ cards = <<>>
    /\ rejected = FALSE
    /\ pending = {}
    /\ bearingDeg = 0
    /\ compass = ""
    /\ bearingUlps = 0

NextPage ==
    \/ RenderApp4
    \/ RenderStopsApp4c
    \/ RenderStops006
    \/ RenderStops007
    \/ RenderStops005
    \/ Init004Mapping
    \/ Init004Render
    \/ RenderStops001c
    \/ RenderStopsApp
    \/ RenderStops002Mapping
    \/ RenderStops002Loop
    \/ Init001a
    \/ Main000
    \/ \E i \in 1..MAX_NEARBY : ArrivalsSettled000(i)

SpecPage == InitPage /\ [][NextPage]_vars

-----------------------------------------------------------------------------
(* Claims about the whole page *)

PageRendered(script) == pc = script

\* The geography arrived and the user was located.
Located == IsSome(geography) /\ IsSome(geolocation)

Usable(f) == f.Latitude.kind = "number" /\ f.Longitude.kind = "number"

AllUsable == \A i \in 1..Len(Get(geography)) : Usable(Get(geography)[i])

Min(a, b) == IF a < b THEN a ELSE b

\* The stop's own fetch failed (network error or non-OK status).
\* A stop's answer holds a row without arrival_time, route or headsign.
MalformedRow ==
    \E atco \in DOMAIN stopJson :
        /\ pc \notin {"p000_open", "p000_fetching", "p000_rendered"}
        /\ IsSome(stopJson[atco])
        /\ \E k \in 1..Len(Get(stopJson[atco])) :
              LET r == Get(stopJson[atco])[k]
              IN  ~IsSome(r.arrival_time) \/ ~IsSome(r.route_short) \/ ~IsSome(r.trip_headsign)

FetchFailed(atco) == ~IsSome(stopJson[atco])

\* The route labels a stop's own answer holds, in its order.
OwnRoutes(atco) ==
    LET answer == Get(stopJson[atco])
    IN  IF pc = "p000_rendered" THEN [k \in 1..Len(answer) |-> answer[k].Line]
        ELSE [k \in 1..Len(TimedRows(answer)) |->
                 OrPlaceholder(TimedRows(answer)[k].route_short, "?")]

\* The route labels an entry of the page lists.
RoutesShown(card) ==
    [k \in 1..Len(card.body.items) |->
        IF pc = "p000_rendered" THEN card.body.items[k].Line
        ELSE card.body.items[k].route]

\* C11: whichever of the nearest stops' own fetches fail, the page has an entry
\* for every nearest stop, a failed stop's entry has an empty list (a no-data
\* text), every other entry lists exactly the arrivals of its own answer, and
\* every nearest stop has been fetched.
C11_PartialFailureIsolation ==
    (pc \in {"app4_rendered", "p000_rendered"} /\ Located /\ AllUsable) =>
        /\ Len(cards) = Min(MAX_NEARBY, Len(Get(geography)))
        /\ \A i \in 1..Len(cards) :
              /\ StopReq(cards[i].atco) \in Range(requests)
              /\ cards[i].body.text # "Loading arrivals..."
              /\ IF FetchFailed(cards[i].atco)
                 THEN cards[i].body.items = <<>> /\ cards[i].body.text # ""
                 ELSE RoutesShown(cards[i]) = OwnRoutes(cards[i].atco)

Rendered ==
    pc \in {"app4_rendered", "p000_rendered", "app4c_rendered", "p006_rendered",
            "p007_rendered", "p005_rendered", "p004_rendered", "p001c_rendered",
            "app_rendered", "p002_rendered",
            "p001a_rendered"}

\* The requests issued after the first request of a kind.
RequestsAfter(kind) ==
    LET at == CHOOSE i \in 1..Len(requests) :
                  requests[i][1] = kind /\ \A j \in 1..(i - 1) : requests[j][1] # kind
    IN  SubSeq(requests, at + 1, Len(requests))

\* C12: when the geography arrived and the geolocation request is rejected, the
\* page shows a message, it has no stop entry, and nothing is requested after
\* the geolocation request.
C12_GeolocationFailureFatal ==
    (Rendered /\ IsSome(geography) /\ ~IsSome(geolocation)) =>
        /\ status # ""
        /\ cards = <<>>
        /\ Req("geolocation") \in Range(requests)
        /\ RequestsAfter("geolocation") = <<>>

\* C13: when the geography fetch fails, the page shows an error, no exception
\* escapes the script, and nothing is requested after the geography: neither
\* the geolocation nor any stop.
C13_GeographyFailureFatal ==
    (Rendered /\ ~IsSome(geography)) =>
        /\ status # ""
        /\ ~rejected
        /\ requests = <<Req("geography")>>

\* The pages that read the realtime feed.
UsesRealtimeFeed ==
    pc \in {"app4_rendered", "app4c_rendered", "p006_rendered", "p007_rendered",
            "p005_rendered"}

\* A list item carries a realtime time.
ShowsRealtime(item) ==
    CASE pc = "app4_rendered" -> item.times.realtime_label
      [] pc = "p006_rendered" -> IsSome(item.realtime)
      [] pc = "p007_rendered" -> IsSome(item.expected)
      [] OTHER -> TRUE

\* C14: when the realtime feed cannot be fetched, the page still has an entry
\* for each of the nearest stops, no exception escapes, and the entries list
\* scheduled times only (or nothing).
C14_RealtimeFailureNonFatal ==
    (UsesRealtimeFeed /\ Located /\ AllUsable /\ rtResponse # "ok") =>
        /\ ~rejected
        /\ Len(cards) = Min(MAX_NEARBY, Len(Get(geography)))
        /\ \A i \in 1..Len(cards) :
              \A k \in 1..Len(cards[i].body.items) : ~ShowsRealtime(cards[i].body.items[k])

\* The feature of the geography file with an AtcoCode.
FeatureOf(atco) ==
    Get(geography)[CHOOSE i \in 1..Len(Get(geography)) : Get(geography)[i].AtcoCode = atco]

\* The distance from the user to a stop, unrounded (micro-degrees of latitude).
TrueDistance(atco) == Haversine(Get(geolocation), FeatureOf(atco).Latitude.value)

\* The stops of the file that the page does not show.
LeftOut ==
    {Get(geography)[i].AtcoCode : i \in 1..Len(Get(geography))}
        \ {cards[i].atco : i \in 1..Len(cards)}

\* The page went through its ranking and rendered its entries.
Ranked ==
    Rendered /\ Located /\ AllUsable /\ rtResponse = "ok" /\ ~rejected /\ ~MalformedRow

\* C15 (as stated): the page shows min(5, number of stops) entries, in order of
\* non-decreasing distance from the user, and no stop left out is strictly
\* nearer than a stop shown.
C15_RankedByDistance ==
    Ranked =>
        /\ Len(cards) = Min(5, Len(Get(geography)))
        /\ \A i, j \in 1..Len(cards) :
              i < j => TrueDistance(cards[i].atco) <= TrueDistance(cards[j].atco)
        /\ \A i \in 1..Len(cards) : \A atco \in LeftOut :
              TrueDistance(atco) >= TrueDistance(cards[i].atco)

\* C15 (amended): the same, with every distance taken to the whole metre.
C15_RankedByMetres ==
    Ranked =>
        /\ Len(cards) = Min(5, Len(Get(geography)))
        /\ \A i, j \in 1..Len(cards) :
              i < j => RoundMetres(TrueDistance(cards[i].atco))
                           <= RoundMetres(TrueDistance(cards[j].atco))
        /\ \A i \in 1..Len(cards) : \A atco \in LeftOut :
              RoundMetres(TrueDistance(atco)) >= RoundMetres(TrueDistance(cards[i].atco))

\* A file of more than five stops, not in order of distance, has been ranked by
\* app4: five entries, the farthest stop of the file left out.
C15_Witness ==
    /\ pc = "app4_rendered"
    /\ Ranked
    /\ Len(Get(geography)) > 5
    /\ Len(cards) = 5
    /\ cards[1].atco # Get(geography)[1].AtcoCode
    /\ \E atco \in LeftOut : \A i \in 1..5 :
          RoundMetres(TrueDistance(atco)) > RoundMetres(TrueDistance(cards[i].atco))

\* The stops of the file with usable coordinates, in file order.
UsableStops == SelectSeq(Get(geography), Usable)

\* The entries of the page, in order, that are of stops with usable coordinates.
UsableShown ==
    LET IsUsable(card) == Usable(FeatureOf(card.atco))
        kept == SelectSeq(cards, IsUsable)
    IN  [i \in 1..Len(kept) |-> kept[i].atco]

\* What the page shows when the stops with unusable coordinates are taken out
\* of the file: the usable stops by distance to the whole metre, stops at the
\* same metre in file order, at most five.
NearestUsable ==
    LET ranked == StableSortByKey(UsableStops,
                      [i \in 1..Len(UsableStops) |->
                          RoundMetres(Haversine(Get(geolocation),
                                                UsableStops[i].Latitude.value))])
    IN  [i \in 1..Min(5, Len(ranked)) |-> ranked[i].AtcoCode]

\* The page went through its ranking of a file with an unusable coordinate.
RankedWithUnusable ==
    Rendered /\ Located /\ ~AllUsable /\ Len(cards) > 0

\* C16: a stop whose latitude or longitude does not parse is not among the
\* entries while five stops with usable coordinates exist, and the usable stops
\* shown, and their order, are those of the file without the unusable stops.
C16_UnusableCoordinates ==
    RankedWithUnusable =>
        /\ Len(UsableStops) >= 5 => \A i \in 1..Len(cards) : Usable(FeatureOf(cards[i].atco))
        /\ \E n \in 0..Len(NearestUsable) : UsableShown = SubSeq(NearestUsable, 1, n)
        /\ Len(cards) = Min(5, Len(Get(geography))) \/ UsableShown = NearestUsable

-----------------------------------------------------------------------------
(* Bearing to compass point *)

\* d degrees and c hundredths.
Deg(d, c) == d * 100 + c

compassPoints == <<"N", "NE", "E", "SE", "S", "SW", "W", "NW">>

\* x = n / d rounded to the nearest integer, halves upwards, for n >= 0.
RoundHalfUp(n, d) == (2 * n + d) \div (2 * d)

\* n / d lies halfway between two integers.
OnHalf(n, d) == (2 * n) % d = 0 /\ ((2 * n) \div d) % 2 = 1

\* Math.round(x) of the double x = n / d, or of the double `ulps` below it:
\* the nearest integer, a half going up.  A double below k + 0.5 gives k.
MathRound(n, d, ulps) ==
    IF OnHalf(n, d) /\ ulps > 0 THEN RoundHalfUp(n, d) - 1 ELSE RoundHalfUp(n, d)

\* Math.floor(x + 0.5) of the same x.  The sum is a double: for x the double
\* below 0.5 it lies halfway between two doubles and is rounded to 1; from 1.5
\* on x + 0.5 is exact.
MathFloorOfSum(n, d, ulps) ==
    IF OnHalf(n, d) /\ ulps > 0 /\ 2 * n = d THEN 1
    ELSE MathRound(n, d, ulps)

\* app: degToCompass(deg).
degToCompass(deg, ulps) ==
    LET val == MathFloorOfSum(deg, Deg(45, 0), ulps)
    IN  compassPoints[(val % 8) + 1]

\* part_002: the tail of bearing(), from brng on.
bearing(brng, ulps) ==
    LET Below(limit) == brng < limit \/ (brng = limit /\ ulps > 0)
    IN  IF Below(Deg(22, 50)) THEN "N"
        ELSE IF Below(Deg(67, 50)) THEN "NE"
        ELSE IF Below(Deg(112, 50)) THEN "E"
        ELSE IF Below(Deg(157, 50)) THEN "SE"
        ELSE IF Below(Deg(202, 50)) THEN "S"
        ELSE IF Below(Deg(247, 50)) THEN "SW"
        ELSE IF Below(Deg(292, 50)) THEN "W"
        ELSE "NW"

\* part_000: compassDirection(deg).
compassDirection(deg, ulps) ==
    LET index == MathRound(deg, Deg(45, 0), ulps) % 8
    IN  compassPoints[index + 1]

\* app4: degToCompass(deg).
degToCompassApp4(deg, ulps) ==
    compassPoints[(MathRound(deg % Deg(360, 0), Deg(45, 0), ulps) % 8) + 1]

\* The scripts apply their function to the bearing of a stop.
CompassOf(script, deg, ulps) ==
    CASE script = "app" -> degToCompass(deg, ulps)
      [] script = "p002" -> bearing(deg, ulps)
      [] script = "p000" -> compassDirection(deg, ulps)
      [] script = "app4" -> degToCompassApp4(deg, ulps)

ShowCompass(script) ==
    /\ pc = script \o "_bearing"
    /\ pc' = script \o "_compass"
    /\ compass' = CompassOf(script, bearingDeg, bearingUlps)
    /\ UNCHANGED <<bearingDeg, bearingUlps, pageVars, inputVars, calVars, rows, shown>>

CompassScripts == {"app", "p002", "p000", "app4"}

\* (toDeg(atan2(y, x)) + 360) % 360 lies in [0, 360): the bearings within a
\* hundredth of every multiple of 2.5 degrees.
Bearings ==
    {b \in 0..(Deg(360, 0) - 1) : b % Deg(2, 50) \in {0, 1, Deg(2, 49)}}

InitCompass ==
    /\ \E script \in CompassScripts : pc = script \o "_bearing"
    /\ bearingDeg \in Bearings
    /\ compass = ""
    /\ bearingUlps = 0
    /\ tz = 0
    /\ now = OpenedAt(tz)
    /\ calendar = [sid \in Services |-> FullYear(MonFri)]
    /\ exRows = <<>>
    /\ trips = DefaultTrips
    /\ calLayout = NotFetched
    /\ validServiceIds = {}
    /\ tripToService = <<>>
    /\ serviceMap = <<>>
    /\ exceptionsMap = <<>>
    /\ tripsMap = <<>>
    /\ dayMap = <<>>
    /\ scheduleRows = <<>>
    /\ rtEntities = <<>>
    /\ rows = <<>>
    /\ shown = <<>>
    /\ geography = None
    /\ geolocation = None
    /\ rtResponse = "ok"
    /\ stopJson = <<>>
    /\ requests = <<>>
    /\ status = ""
    /\ cards = <<>>
    /\ rejected = FALSE
    /\ pending = {}

NextCompass ==
    \/ ShowCompass("app")
    \/ ShowCompass("p002")
    \/ ShowCompass("p000")
    \/ ShowCompass("app4")

SpecCompass == InitCompass /\ [][NextCompass]_vars

\* The script has shown the compass point of its bearing.
CompassShown(script) == pc = script \o "_compass"

\* C17: for every bearing b in [0, 360) the compass point shown is the element
\* round(b / 45) mod 8 of N, NE, E, SE, S, SW, W, NW; in particular every
\* bearing from 337.5 up to 360 gives N.
C17_BearingBucketing ==
    \A script \in CompassScripts :
        CompassShown(script) =>
            /\ compass = compassPoints[(RoundHalfUp(bearingDeg, Deg(45, 0)) % 8) + 1]
            /\ bearingDeg >= Deg(337, 50) => compass = "N"

-----------------------------------------------------------------------------
(* The calendar is loaded once per render *)

CalendarResources == {"calendar.txt", "calendar_dates.txt", "trips.txt.gz"}

\* The places of the requests of one kind.
PlacesOf(kind) == {k \in 1..Len(requests) : requests[k][1] = kind}

\* The pages that resolve the service day from the calendar files.
CalendarPage == pc \in {"p002_rendered", "p004_rendered", "app_rendered"}

\* Every stop's list is the one computed from the one active-service result
\* that the render built.
SameCalendarForEveryStop ==
    CASE pc = "p002_rendered" ->
            \A i \in 1..Len(cards) : cards[i].body = StopBody002(cards[i].atco)
      [] pc = "p004_rendered" ->
            \A i \in 1..Len(cards) : cards[i].body = StopBody004(cards[i].atco)
      [] pc = "app_rendered" ->
            \E tripRows \in {trips, <<>>} :
                \A i \in 1..Len(cards) :
                    cards[i].body.items =
                        IF IsSome(stopJson[cards[i].atco])
                        THEN ProcessArrivals(PlainRows(Get(stopJson[cards[i].atco])),
                                             dayMap, tripRows)
                        ELSE <<>>

\* C18: the calendar rows, the exception rows and the trips are each fetched at
\* most once per render, all of them before the first per-stop fetch and none
\* in the loop over the stops, and every stop's list is computed from the same
\* active-service result.
C18_CalendarLoadedOnce ==
    CalendarPage =>
        /\ \A kind \in CalendarResources : Cardinality(PlacesOf(kind)) <= 1
        /\ \A k \in PlacesOf("stop") :
              \A kind \in CalendarResources :
                  \E j \in PlacesOf(kind) : j < k
        /\ SameCalendarForEveryStop

\* A calendar page has fetched two stops and lists an arrival for both.
C18_Witness ==
    /\ pc = "p002_rendered"
    /\ Cardinality(PlacesOf("stop")) = 2
    /\ \A i \in 1..Len(cards) : Len(cards[i].body.items) = 1
    /\ Len(cards) = 2

-----------------------------------------------------------------------------
(* Records with missing fields *)

\* The realtime feed holds an entity without its trip block, or a trip block
\* without route and headsign.
MalformedEntity ==
    \/ /\ pc = "p006_rendered"
       /\ \E k \in 1..Len(rtEntities) :
             /\ IsSome(rtEntities[k].trip_update)
             /\ LET trip == Get(rtEntities[k].trip_update).trip
                IN  ~IsSome(trip) \/ ~IsSome(Get(trip).route_id)
    \/ /\ pc = "p005_rendered"
       /\ \E k \in 1..Len(rtEntities) :
             /\ IsSome(rtEntities[k].tripUpdate)
             /\ LET trip == Get(rtEntities[k].tripUpdate).trip
                IN  ~IsSome(trip) \/ ~IsSome(Get(trip).tripHeadsign)

\* The rows of a stop that have their arrival_time.
RowsWithTime(atco) ==
    IF IsSome(stopJson[atco])
    THEN {k \in 1..Len(Get(stopJson[atco])) : IsSome(Get(stopJson[atco])[k].arrival_time)}
    ELSE {}

\* C19: a schedule row or realtime entity that lacks a field raises no
\* exception and stops neither the other rows nor the other stops: every
\* nearest stop is rendered to its end, the rows that have their time are
\* listed, and a missing route or headsign is shown as a placeholder.
C19_MalformedRecordsDoNotThrow ==
    (Rendered /\ Located /\ rtResponse = "ok" /\ (MalformedRow \/ MalformedEntity)) =>
        /\ ~rejected
        /\ status \in {"", "Done"}
        /\ Len(cards) = Min(5, Len(Get(geography)))
        /\ \A i \in 1..Len(cards) :
              /\ cards[i].body.text # "Loading"
              /\ MalformedRow =>
                    Len(cards[i].body.items) = Cardinality(RowsWithTime(cards[i].atco))
              /\ \A k \in 1..Len(cards[i].body.items) :
                    /\ cards[i].body.items[k].route # "undefined"
                    /\ cards[i].body.items[k].headsign # "undefined"

-----------------------------------------------------------------------------
(* The arrival fetches of part_000 run together *)

\* Every arrival fetch that main() started has settled.
AllSettled000 == pc = "p000_rendered" /\ Located /\ pending = {}

\* The entries of the page have different element ids.
DistinctIds000 ==
    \A i, j \in 1..Len(cards) : cards[i].cleanId = cards[j].cleanId => i = j

\* C20: when the arrival fetches of the nearest stops have completed, in
\* whatever order, every stop's container shows the arrivals, the error text or
\* the no-arrivals text of that stop's own fetch.
C20_OwnArrivalsInEveryOrder ==
    AllSettled000 =>
        \A i \in 1..Len(cards) : cards[i].body = ArrivalsBody000(stopJson[cards[i].atco])

-----------------------------------------------------------------------------
(* Distances of reference pairs *)

\* d degrees of latitude, in micro-degrees.
Degrees(d) == d * 1000 * 1000

\* Latitudes of the reference pairs: the equator, the poles, places one degree
\* apart, and the latitudes of the ranking.
DistLatitudes ==
    {0, 37, 40, Degrees(1), -Degrees(1), Degrees(52), Degrees(53), Degrees(54),
     Degrees(90), -Degrees(90)}

\* One stop and a located user on the stop's meridian; app4 and part_000
\* compute the distance of the stop.
InitDist ==
    /\ pc \in {"app4_open", "p000_open"}
    /\ \E lat \in DistLatitudes :
          /\ geography = Some(<<Feature(1, Coord(lat))>>)
          /\ stopJson = [c \in {CodeAt(1)} |-> Some(<<>>)]
    /\ geolocation \in {Some(lat) : lat \in DistLatitudes}
    /\ rtResponse = "ok"
    /\ rtEntities = <<>>
    /\ tz = 0
    /\ now = OpenedAt(tz)
    /\ calendar = [sid \in Services |-> FullYear(MonFri)]
    /\ exRows = <<>>
    /\ trips = DefaultTrips
    /\ calLayout = NotFetched
    /\ validServiceIds = {}
    /\ tripToService = <<>>
    /\ serviceMap = <<>>
    /\ exceptionsMap = <<>>
    /\ tripsMap = <<>>
    /\ dayMap = <<>>
    /\ scheduleRows = <<>>
    /\ rows = <<>>
    /\ shown = <<>>
    /\ requests = <<>>
    /\ status = ""
    /\ cards = <<>>
    /\ rejected = FALSE
    /\ pending = {}
    /\ bearingDeg = 0
    /\ compass = ""
    /\ bearingUlps = 0

NextDist ==
    \/ RenderApp4
    \/ Main000
    \/ \E i \in 1..MAX_NEARBY : ArrivalsSettled000(i)

SpecDist == InitDist /\ [][NextDist]_vars

\* The distance of the stop of the page, to the whole metre.
MetresShown ==
    IF pc = "app4_rendered" THEN Get(cards[1].dist) ELSE RoundMetres(Get(cards[1].dist))

\* The stop's distance has been computed.
DistanceShown == pc \in {"app4_rendered", "p000_rendered"} /\ Len(cards) = 1

\* The two latitudes of the pair.
PairLatitudes == <<Get(geolocation), Get(geography)[1].Latitude.value>>

OneDegreeApart == Abs(PairLatitudes[1] - PairLatitudes[2]) = Degrees(1)

\* C21 (as stated): the distance of identical coordinates is 0, and that of two
\* points one degree of latitude apart on a meridian is 111,320 m to the metre.
C21_HaversineReference ==
    DistanceShown =>
        /\ PairLatitudes[1] = PairLatitudes[2] => MetresShown = 0
        /\ OneDegreeApart => Abs(MetresShown - 111320) <= 1

\* C21 (amended): the distance of identical coordinates is 0, and that of two
\* points one degree of latitude apart on a meridian is 111,195 m to the metre,
\* which is 6,371,000 m * pi / 180.
C21_HaversineOfRadius ==
    DistanceShown =>
        /\ PairLatitudes[1] = PairLatitudes[2] => MetresShown = 0
        /\ OneDegreeApart => Abs(MetresShown - 111195) <= 1

\* The distance of a stop one degree north or south of the user has been shown.
C21_Witness == DistanceShown /\ OneDegreeApart /\ MetresShown > 0

-----------------------------------------------------------------------------
(* app4: the window test, the order of the filters, the attached prediction *)

\* The entity of the feed for a trip, if any.
FeedHasTrip(t) == \E k \in 1..Len(rtEntities) : rtEntities[k].trip_id = t

\* The instant a row is scheduled for: its time of day, in the user's time, on
\* the start date the feed gives for its trip, else today.
ScheduledInstant(r) ==
    IF FeedHasTrip(r.trip_id) /\ StartDateFor(r) # Today
    THEN ParseYmd(StartDateFor(r)) + HmsSeconds(r.arrival_time) - tz
    ELSE TimeToday(r.arrival_time)

\* The absolute time an update supplies: that of its arrival, else of its departure.
SuppliedTime(stu) ==
    IF IsSome(stu.arrival) /\ IsSome(Get(stu.arrival).time) THEN Get(stu.arrival).time
    ELSE IF IsSome(stu.departure) THEN Get(stu.departure).time
    ELSE None

\* The prediction the feed holds for a row: the absolute time of its update,
\* else its scheduled instant plus the update's delay.
PredictionFor(r) ==
    IF \E stu \in UpdatesFor(r) : IsSome(SuppliedTime(stu))
    THEN SuppliedTime(CHOOSE stu \in UpdatesFor(r) : IsSome(SuppliedTime(stu)))
    ELSE IF \E stu \in UpdatesFor(r) : IsSome(SuppliedDelay(stu))
    THEN Some(ScheduledInstant(r)
                + Get(SuppliedDelay(CHOOSE stu \in UpdatesFor(r) : IsSome(SuppliedDelay(stu)))))
    ELSE None

InWindowInstant(t) ==
    now - WINDOW_PAST_MIN * 60 <= t /\ t <= now + WINDOW_FUTURE_MIN * 60

\* C22: a row with a realtime prediction is listed iff the prediction lies in
\* [now - 30 min, now + 60 min], whatever its scheduled time; a row with no
\* prediction is listed iff its scheduled time lies in the window.
C22_WindowOnEffectiveTime ==
    pc = "app4_done" =>
        \A i \in 1..Len(scheduleRows) :
            LET r == scheduleRows[i]
                effective == IF IsSome(PredictionFor(r)) THEN Get(PredictionFor(r))
                             ELSE ScheduledInstant(r)
            IN  HasRow(r.trip_id, r.arrival_time) <=> InWindowInstant(effective)

\* The row would be listed if it were the only row of the stop's file.
DisplayableAlone(r) ==
    IF pc = "p002_done" THEN FilterArrivals002(<<r>>) # <<>>
    ELSE MergeScheduledWithRT(<<r>>, BuildRtLookup(rtEntities)) # <<>>

\* C23: the window and service filters come before the deduplication: the first
\* row of a trip that passes the filters is listed, whatever rows of the same
\* trip stand before it in the file; a row that is filtered out never
\* suppresses a row that can be displayed.
C23_FilterBeforeDedupe ==
    pc \in {"p002_done", "app4_done"} =>
        \A i \in 1..Len(scheduleRows) :
            LET r == scheduleRows[i]
            IN  (/\ DisplayableAlone(r)
                 /\ \A j \in 1..(i - 1) :
                       scheduleRows[j].trip_id = r.trip_id => ~DisplayableAlone(scheduleRows[j]))
                    => HasRow(r.trip_id, r.arrival_time)

\* Two arrivals of one trip, the first outside the window and the second
\* inside: the second is listed.
C23_Witness ==
    /\ pc = "p002_done"
    /\ Len(scheduleRows) = 2
    /\ scheduleRows[1].trip_id = scheduleRows[2].trip_id
    /\ ~DisplayableAlone(scheduleRows[1])
    /\ DisplayableAlone(scheduleRows[2])
    /\ Len(rows) = 1
    /\ rows[1].arrival_time = scheduleRows[2].arrival_time

\* An update of the row's trip at the row's stop carries a time or a delay.
HasPrediction(m) ==
    \E stu \in UpdatesFor(m) : IsSome(SuppliedTime(stu)) \/ IsSome(SuppliedDelay(stu))

\* C24: a prediction is attached to a row only if the feed has an entity of the
\* row's trip with an update at the row's stop_id (or, failing that, its
\* stop_sequence) that carries a time or a delay; a row whose trip is in the
\* feed without a matching update is marked rt_found, has no prediction, and is
\* filtered and displayed by its scheduled time.
C24_PredictionNeedsMatchingUpdate ==
    pc = "app4_done" =>
        /\ \A j \in 1..Len(rows) :
              /\ IsSome(rows[j].realtime) => FeedHasTrip(rows[j].trip_id) /\ HasPrediction(rows[j])
              /\ (FeedHasTrip(rows[j].trip_id) /\ UpdatesFor(rows[j]) = {}) =>
                    /\ rows[j].rt_found
                    /\ rows[j].realtime = None
                    /\ ~shown[j].realtime_label
                    /\ shown[j].at = rows[j].arrival_time
        /\ \A i \in 1..Len(scheduleRows) :
              LET r == scheduleRows[i]
              IN  (FeedHasTrip(r.trip_id) /\ UpdatesFor(r) = {}) =>
                      (HasRow(r.trip_id, r.arrival_time)
                          <=> InWindowInstant(ScheduledInstant(r)))

-----------------------------------------------------------------------------
(* Arrivals are per stop *)

\* The stop identifiers carried by the records of the realtime feed, as each
\* page reads them; the records of app4c have a Line and a Destination only.
StopsOfFeed ==
    CASE pc = "p005_rendered" ->
            UNION {IF IsSome(rtEntities[i].tripUpdate)
                   THEN {Get(rtEntities[i].tripUpdate).stopTimeUpdate[k].stopId :
                            k \in 1..Len(Get(rtEntities[i].tripUpdate).stopTimeUpdate)}
                   ELSE {} : i \in 1..Len(rtEntities)}
      [] pc = "p006_rendered" ->
            UNION {IF IsSome(rtEntities[i].trip_update)
                   THEN {Get(rtEntities[i].trip_update).stop_time_update[k].stop_id :
                            k \in 1..Len(Get(rtEntities[i].trip_update).stop_time_update)}
                   ELSE {} : i \in 1..Len(rtEntities)}
      [] pc = "p007_rendered" ->
            UNION {{Get(rtEntities[i].stop_time_update[k].stop_id) :
                        k \in {n \in 1..Len(rtEntities[i].stop_time_update) :
                                  IsSome(rtEntities[i].stop_time_update[n].stop_id)}} :
                      i \in 1..Len(rtEntities)}
      [] OTHER -> {}

\* The list items of an entry that come from the realtime feed.
RealtimeItems(card) ==
    SelectSeq(card.body.items, LAMBDA item : ShowsRealtime(item))

\* C25: every realtime arrival listed under a stop comes from a feed record
\* whose stop identifier is that stop's AtcoCode; no stop lists a realtime
\* arrival of another stop.
C25_ArrivalsArePerStop ==
    (pc \in {"app4c_rendered", "p005_rendered", "p006_rendered", "p007_rendered"}
        /\ rtResponse = "ok") =>
        \A i \in 1..Len(cards) :
            RealtimeItems(cards[i]) # <<>> => cards[i].atco \in StopsOfFeed

-----------------------------------------------------------------------------
(* p007: mergeArrivals *)

\* The stop-time updates of the feed at the stop, in feed order.
UpdatesAtStop ==
    LET RECURSIVE Flat(_)
        Flat(i) == IF i > Len(rtEntities) THEN <<>>
                   ELSE rtEntities[i].stop_time_update \o Flat(i + 1)
    IN  SelectSeq(Flat(1), LAMBDA stu : stu.stop_id = Some(StopAtco))

\* The trip an update names in its own trip block, if it has one.
TripOfUpdate(stu) == IF IsSome(stu.trip) THEN Some(Get(stu.trip).trip_id) ELSE None

\* The trip of a scheduled arrival has an update at the stop.
HasUpdateAtStop(r) ==
    \E k \in 1..Len(UpdatesAtStop) : TripOfUpdate(UpdatesAtStop[k]) = Some(r.trip_id)

\* C26: mergeArrivals merges by trip_id: the row of an update whose trip has a
\* scheduled arrival carries the scheduled time (and the realtime time the
\* update has); every scheduled arrival is in exactly one row; there is one row
\* per update at the stop plus one per scheduled arrival without an update.
C26_MergeByTripId ==
    pc = "p007_done" =>
        /\ Len(rows) = Len(UpdatesAtStop)
                + Cardinality({i \in 1..Len(scheduleRows) : ~HasUpdateAtStop(scheduleRows[i])})
        /\ \A k \in 1..Len(UpdatesAtStop) :
              (\E i \in 1..Len(scheduleRows) :
                    TripOfUpdate(UpdatesAtStop[k]) = Some(scheduleRows[i].trip_id))
                 => /\ IsSome(rows[k].scheduled_time)
                    /\ IsSome(rows[k].expected_time)
                          <=> IsSome(EventTime(UpdatesAtStop[k].arrival))
        /\ Cardinality({j \in 1..Len(rows) : IsSome(rows[j].scheduled_time)})
              = Len(scheduleRows)
        /\ \A i \in 1..Len(scheduleRows) :
              \E j \in 1..Len(rows) :
                  rows[j].scheduled_time = Some(scheduleRows[i].arrival_time)

\* The same with at most one scheduled arrival per trip.
C26_MergeOfDistinctTrips ==
    (\A i, j \in 1..Len(scheduleRows) :
        scheduleRows[i].trip_id = scheduleRows[j].trip_id => i = j)
        => C26_MergeByTripId

-----------------------------------------------------------------------------
(* app4: which value of an update becomes the prediction *)

\* A StopTimeEvent with or without a time and with or without a delay, or none.
EventsWith(time, delay) ==
    {None} \cup {Some([time |-> t, delay |-> d]) :
                    t \in {None, Some(time)}, d \in {None, Some(delay)}}

\* (arrival, departure): the arrival at 09:45:00Z a minute late, the departure
\* two minutes after it and two minutes late.
PredictedEvents ==
    EventsWith(RtTime, 60) \X EventsWith(RtTime + 120, 120)

\* One scheduled arrival at the stop and one update of trip T1, at the stop or
\* elsewhere on the trip.
InitPred ==
    /\ pc = "start"
    /\ tz \in TzOffsets
    /\ now = OpenedAt(tz)
    /\ \E place \in {"S1", "seq", "S2"}, ev \in PredictedEvents :
          rtEntities = <<[trip_id |-> "T1", start_date |-> None,
                          stop_time_update |-> <<StopTimeUpdate(place, ev)>>]>>
    /\ calendar = [sid \in Services |-> FullYear(MonFri)]
    /\ exRows = <<>>
    /\ trips = DefaultTrips
    /\ \E t \in TripIds, at \in {<<9, 30, 0>>, <<10, 0, 0>>},
          shape \in {"stop_id", "stop_sequence"} :
          scheduleRows = <<ScheduleRow(t, at, shape)>>
    /\ calLayout = NotFetched
    /\ validServiceIds = {}
    /\ tripToService = <<>>
    /\ serviceMap = <<>>
    /\ exceptionsMap = <<>>
    /\ tripsMap = <<>>
    /\ dayMap = <<>>
    /\ rows = <<>>
    /\ shown = <<>>
    /\ NoPage

NextPred == RenderStopApp4

SpecPred == InitPred /\ [][NextPred]_vars

\* The time and the delay an event carries.
TimeIn(ev) == IF IsSome(ev) THEN Get(ev).time ELSE None

DelayIn(ev) == IF IsSome(ev) THEN Get(ev).delay ELSE None

\* C27: an update's absolute time is the row's predicted time, whether or not
\* it also carries a delay, and the delay is reported as delay_seconds; the
\* arrival's time and delay are taken before the departure's, which are used
\* only when the arrival's are absent.
C27_TimeBeforeDelayArrivalBeforeDeparture ==
    pc = "app4_done" =>
        \A j \in 1..Len(rows) :
            \A stu \in UpdatesFor(rows[j]) :
                /\ IsSome(TimeIn(stu.arrival)) => rows[j].realtime = TimeIn(stu.arrival)
                /\ (~IsSome(TimeIn(stu.arrival)) /\ IsSome(TimeIn(stu.departure)))
                      => rows[j].realtime = TimeIn(stu.departure)
                /\ IsSome(DelayIn(stu.arrival))
                      => rows[j].delay_seconds = DelayIn(stu.arrival)
                /\ (~IsSome(DelayIn(stu.arrival)) /\ IsSome(DelayIn(stu.departure)))
                      => rows[j].delay_seconds = DelayIn(stu.departure)

\* A listed row whose update has a time and a delay in both its events.
C27_Witness ==
    /\ pc = "app4_done"
    /\ Len(rows) = 1
    /\ rows[1].realtime = Some(RtTime)
    /\ rows[1].delay_seconds = Some(60)
    /\ \E stu \in UpdatesFor(rows[1]) :
          /\ TimeIn(stu.arrival) = Some(RtTime)
          /\ DelayIn(stu.arrival) = Some(60)
          /\ TimeIn(stu.departure) = Some(RtTime + 120)
          /\ DelayIn(stu.departure) = Some(120)

-----------------------------------------------------------------------------
(* p001a: what the location message reports *)

\* C28: the message 'Cannot determine your location. Please allow location
\* access.' is shown only when the geolocation request failed; a failure after
\* the position was obtained is not reported as a location failure.
C28_LocationMessageOnlyForLocation ==
    (pc = "p001a_rendered"
        /\ status = "Cannot determine your location. Please allow location access.")
        => ~IsSome(geolocation)

\* The message is shown after a failed geolocation request.
C28_MessageAfterLocationFailure ==
    (pc = "p001a_rendered" /\ ~IsSome(geolocation))
        => status = "Cannot determine your location. Please allow location access."

-----------------------------------------------------------------------------
(* app4 render and p004 init, one step per await: the status element *)

\* A loop that writes 'Done' before its entries are appended.
StatusInLoopEarly(appended, total, current) == "Done"

\* The status text of the stop loop once `appended` of `total` entries are on
\* the page: the loop leaves the text alone, 'Done' is written after it.
StatusInLoop(appended, total, current) ==
    IF appended = total THEN "Done" ELSE current

\* render(): 'Loading stops' and the fetch of the geography (lines 275-280).
RenderBeginApp4 ==
    /\ pc = "app4_render"
    /\ status' = "Loading stops"
    /\ requests' = <<Req("geography")>>
    /\ pc' = "app4_loading_stops"
    /\ UNCHANGED <<cards, rejected, pending, pageInputs, compassVars, inputVars, calVars,
                   rows, shown>>

\* The geography answered or failed (lines 280-295).
StopsSettledApp4 ==
    /\ pc = "app4_loading_stops"
    /\ IF ~IsSome(geography)
       THEN /\ status' = "Error loading stops.geojson.gz"
            /\ pc' = "app4_returned"
            /\ UNCHANGED requests
       ELSE /\ status' = "Getting location"
            /\ requests' = Append(requests, Req("geolocation"))
            /\ pc' = "app4_locating"
    /\ UNCHANGED <<cards, rejected, pending, pageInputs, compassVars, inputVars, calVars,
                   rows, shown>>

\* The position arrived or the request failed (lines 290-297).
LocationSettledApp4 ==
    /\ pc = "app4_locating"
    /\ IF ~IsSome(geolocation)
       THEN /\ status' = "Cannot determine location (allow location and reload)"
            /\ pc' = "app4_returned"
       ELSE /\ status' = "Finding nearest stops"
            /\ pc' = "app4_finding"
    /\ UNCHANGED <<requests, cards, rejected, pending, pageInputs, compassVars, inputVars,
                   calVars, rows, shown>>

\* The list of nearest stops is built, the feed is requested (lines 298-307).
FindNearestApp4 ==
    /\ pc = "app4_finding"
    /\ status' = "Loading RT feed"
    /\ requests' = Append(requests, Req("realtime"))
    /\ pc' = "app4_loading_feed"
    /\ UNCHANGED <<cards, rejected, pending, pageInputs, compassVars, inputVars, calVars,
                   rows, shown>>

\* The feed answered or not (lines 307-317); the container is emptied.
FeedSettledApp4 ==
    /\ pc = "app4_loading_feed"
    /\ status' = IF IsSome(LoadGTFSRTFromWorker) THEN "Merging realtime with schedule"
                 ELSE "Realtime feed not available (worker offline). Showing scheduled times only."
    /\ cards' = <<>>
    /\ pc' = "app4_merging"
    /\ UNCHANGED <<requests, rejected, pending, pageInputs, compassVars, inputVars, calVars,
                   rows, shown>>

\* The loop is entered: the first stop file is requested, or there is no stop
\* (lines 319-325, 385).
LoopBeginApp4 ==
    /\ pc = "app4_merging"
    /\ LET list == NearestApp4(Get(geography), Get(geolocation))
       IN  /\ status' = StatusInLoop(0, Len(list), status)
           /\ IF Len(list) = 0
              THEN pc' = "app4_returned" /\ UNCHANGED requests
              ELSE /\ pc' = "app4_stops"
                   /\ requests' = Append(requests, StopReq(list[1].feature.AtcoCode))
    /\ UNCHANGED <<cards, rejected, pending, pageInputs, compassVars, inputVars, calVars,
                   rows, shown>>

\* A stop file answered: its entry is appended, the next file is requested or
\* the loop ends (lines 325-385).
StopSettledApp4 ==
    /\ pc = "app4_stops"
    /\ LET list     == NearestApp4(Get(geography), Get(geolocation))
           entities == LoadGTFSRTFromWorker
           k        == Len(cards) + 1
       IN  /\ cards' = Append(cards,
                          [atco |-> list[k].feature.AtcoCode,
                           dist |-> Some(list[k].dist),
                           rt_available |-> IsSome(entities),
                           body |-> StopBodyApp4(list[k].feature.AtcoCode,
                                                 RtByTripApp4(entities))])
           /\ status' = StatusInLoop(k, Len(list), status)
           /\ IF k = Len(list)
              THEN pc' = "app4_returned" /\ UNCHANGED requests
              ELSE /\ pc' = "app4_stops"
                   /\ requests' = Append(requests, StopReq(list[k + 1].feature.AtcoCode))
    /\ UNCHANGED <<rejected, pending, pageInputs, compassVars, inputVars, calVars, rows,
                   shown>>

\* p004 init(): 'Loading stops' and the fetch of the geography (lines 191-192).
InitBegin004 ==
    /\ pc = "p004_init"
    /\ status' = "Loading stops"
    /\ requests' = <<Req("geography")>>
    /\ pc' = "p004_loading_stops"
    /\ UNCHANGED <<cards, rejected, pending, pageInputs, compassVars, inputVars, calVars,
                   rows, shown>>

\* loadStops() returned or threw (lines 192-194, 204-205).
StopsSettled004 ==
    /\ pc = "p004_loading_stops"
    /\ IF ~IsSome(geography)
       THEN /\ status' = "Error: geography"
            /\ pc' = "p004_returned"
            /\ UNCHANGED requests
       ELSE /\ status' = "Loading GTFS mapping"
            /\ requests' = requests \o <<Req("trips.txt.gz"), Req("calendar.txt"),
                                         Req("calendar_dates.txt")>>
            /\ pc' = "p004_mapping"
    /\ UNCHANGED <<cards, rejected, pending, pageInputs, compassVars, inputVars, calVars,
                   rows, shown>>

\* loadGTFSMapping() returned (lines 194-199).
MappingSettled004 ==
    /\ pc = "p004_mapping"
    /\ tripsMap' = trips
    /\ serviceMap' = ServiceMap004
    /\ exceptionsMap' = ExceptionsMap004
    /\ status' = "Getting location"
    /\ requests' = Append(requests, Req("geolocation"))
    /\ pc' = "p004_locating"
    /\ UNCHANGED <<cards, rejected, pending, pageInputs, compassVars, inputVars,
                   validServiceIds, tripToService, dayMap, calLayout, rows, shown>>

\* The position arrived or the request failed (lines 197-201, 204-205).
LocationSettled004 ==
    /\ pc = "p004_locating"
    /\ IF ~IsSome(geolocation)
       THEN /\ status' = "Error: geolocation"
            /\ pc' = "p004_returned"
       ELSE /\ status' = "Rendering nearby stops"
            /\ pc' = "p004_rendering"
    /\ UNCHANGED <<requests, cards, rejected, pending, pageInputs, compassVars, inputVars,
                   calVars, rows, shown>>

\* getNearestStops of p004 when every coordinate is a number: the sort has one
\* outcome.
Nearest004 ==
    LET features == Get(geography)
    IN  CHOOSE nearest \in NearestStops(features,
                   [place \in DOMAIN features |->
                       DistanceOrNaN(Get(geolocation), features[place])]) : TRUE

\* renderStops() is entered: the list is emptied, the first stop file is
\* requested, or there is no stop (lines 158-163, 203).
LoopBegin004 ==
    /\ pc = "p004_rendering"
    /\ cards' = <<>>
    /\ IF Len(Nearest004) = 0
       THEN /\ status' = "Done"
            /\ pc' = "p004_returned"
            /\ UNCHANGED requests
       ELSE /\ pc' = "p004_stops"
            /\ requests' = Append(requests, StopReq(Nearest004[1].feature.AtcoCode))
            /\ UNCHANGED status
    /\ UNCHANGED <<rejected, pending, pageInputs, compassVars, inputVars, calVars, rows,
                   shown>>

\* A stop file answered: its entry is appended, the next file is requested or
\* renderStops returns and init writes 'Done' (lines 162-186, 203).
StopSettled004 ==
    /\ pc = "p004_stops"
    /\ LET k == Len(cards) + 1
       IN  /\ cards' = Append(cards,
                          [atco |-> Nearest004[k].feature.AtcoCode,
                           dist |-> Nearest004[k].dist,
                           body |-> StopBody004(Nearest004[k].feature.AtcoCode)])
           /\ IF k = Len(Nearest004)
              THEN /\ status' = "Done"
                   /\ pc' = "p004_returned"
                   /\ UNCHANGED requests
              ELSE /\ pc' = "p004_stops"
                   /\ requests' = Append(requests,
                                         StopReq(Nearest004[k + 1].feature.AtcoCode))
                   /\ UNCHANGED status
    /\ UNCHANGED <<rejected, pending, pageInputs, compassVars, inputVars, calVars, rows,
                   shown>>

\* Geography files of usable stops: none, one, two, or one more than the page
\* lists.
StatusGeographies ==
    UNION {Geographies(n, {Coord(37), Coord(90)}) : n \in 0..2}
        \cup Geographies(MAX_NEARBY + 1, {Coord(40)})

InitStatus ==
    /\ pc \in {"app4_render", "p004_init"}
    /\ tz = 0
    /\ now = OpenedAt(tz)
    /\ \E g \in StatusGeographies :
          /\ geography \in {None, Some(g)}
          /\ stopJson \in [CodesOf(g) -> IF Len(g) > 2 THEN {Some(<<>>)}
                                         ELSE {None, Some(<<>>), Some(<<PageRow("T1")>>)}]
    /\ geolocation \in {None, Some(0)}
    /\ rtResponse \in {"ok", "failed"}
    /\ rtEntities = IF pc = "app4_render" THEN FeedApp4 ELSE <<>>
    /\ calendar = [sid \in Services |-> FullYear(MonFri)]
    /\ exRows = <<>>
    /\ trips = DefaultTrips
    /\ calLayout = NotFetched
    /\ validServiceIds = {}
    /\ tripToService = <<>>
    /\ serviceMap = <<>>
    /\ exceptionsMap = <<>>
    /\ tripsMap = <<>>
    /\ dayMap = <<>>
    /\ scheduleRows = <<>>
    /\ rows = <<>>
    /\ shown = <<>>
    /\ requests = <<>>
    /\ status = ""
    /\ cards = <<>>
    /\ rejected = FALSE
    /\ pending = {}
    /\ bearingDeg = 0
    /\ compass = ""
    /\ bearingUlps = 0

NextStatus ==
    \/ RenderBeginApp4
    \/ StopsSettledApp4
    \/ LocationSettledApp4
    \/ FindNearestApp4
    \/ FeedSettledApp4
    \/ LoopBeginApp4
    \/ StopSettledApp4
    \/ InitBegin004
    \/ StopsSettled004
    \/ MappingSettled004
    \/ LocationSettled004
    \/ LoopBegin004
    \/ StopSettled004

SpecStatus == InitStatus /\ [][NextStatus]_vars

\* The texts the status element goes through, in the order of the code; the
\* three texts of the rendering phase share a place.
StatusPlace(text) ==
    CASE text = "" -> 0
      [] text = "Loading stops" -> 1
      [] text = "Loading GTFS mapping" -> 2
      [] text = "Getting location" -> 3
      [] text = "Finding nearest stops" -> 4
      [] text = "Loading RT feed" -> 5
      [] text \in {"Merging realtime with schedule", "Rendering nearby stops",
                   "Realtime feed not available (worker offline). Showing scheduled times only."}
            -> 6
      [] text = "Done" -> 7
      [] OTHER -> 8

\* The places of 'Loading stops', 'Getting location' and the rendering phase.
Milestones == {1, 3, 6}

\* The nearest stops the page has to show.
NearestCount == Min(MAX_NEARBY, Len(Get(geography)))

\* 'Done' is shown with an entry for every nearest stop, and never after a
\* failed geography or geolocation.
DoneMeansComplete ==
    status = "Done" =>
        /\ IsSome(geography) /\ IsSome(geolocation)
        /\ Len(cards) = NearestCount
        /\ \A i, j \in 1..Len(cards) : cards[i].atco = cards[j].atco => i = j

\* The status moves forward only, without passing over a milestone, and a
\* failure text or 'Done' is never replaced.
StatusMovesInOrder ==
    status' # status =>
        /\ StatusPlace(status) < StatusPlace(status')
        /\ StatusPlace(status') <= 7 =>
              \A m \in Milestones : ~(StatusPlace(status) < m /\ m < StatusPlace(status'))

\* C29: the status reads 'Done' only after an entry for every one of the
\* nearest stops was appended; after a failed geography load or geolocation it
\* never becomes 'Done'; the status steps come in the order loading stops,
\* getting location, rendering, Done.
C29_StatusSteps == []DoneMeansComplete /\ [][StatusMovesInOrder]_vars

\* 'Done' with every one of several nearest stops on the page.
C29_Witness ==
    /\ status = "Done"
    /\ Len(cards) = MAX_NEARBY
    /\ Len(Get(geography)) > MAX_NEARBY

-----------------------------------------------------------------------------
(* The bucketing variants on the same bearing *)

\* The scripts that bucket by rounding deg / 45.
RoundingScripts == {"app", "app4", "p000"}

\* The bearings of [0, 360] within a hundredth of every multiple of 2.5
\* degrees, and the doubles just below them.
InitBucket ==
    /\ \E script \in RoundingScripts : pc = script \o "_bearing"
    /\ bearingDeg \in Bearings \cup {Deg(360, 0)}
    /\ bearingUlps \in {0, 1}
    /\ bearingDeg = 0 => bearingUlps = 0
    /\ compass = ""
    /\ tz = 0
    /\ now = OpenedAt(tz)
    /\ calendar = [sid \in Services |-> FullYear(MonFri)]
    /\ exRows = <<>>
    /\ trips = DefaultTrips
    /\ calLayout = NotFetched
    /\ validServiceIds = {}
    /\ tripToService = <<>>
    /\ serviceMap = <<>>
    /\ exceptionsMap = <<>>
    /\ tripsMap = <<>>
    /\ dayMap = <<>>
    /\ scheduleRows = <<>>
    /\ rtEntities = <<>>
    /\ rows = <<>>
    /\ shown = <<>>
    /\ geography = None
    /\ geolocation = None
    /\ rtResponse = "ok"
    /\ stopJson = <<>>
    /\ requests = <<>>
    /\ status = ""
    /\ cards = <<>>
    /\ rejected = FALSE
    /\ pending = {}

NextBucket ==
    \/ ShowCompass("app")
    \/ ShowCompass("app4")
    \/ ShowCompass("p000")

SpecBucket == InitBucket /\ [][NextBucket]_vars

\* C30: for every bearing in [0, 360] the three rounding variants give the same
\* index, that index is in 0..7, and every variant returns the same one of the
\* eight compass points.
C30_VariantsAgree ==
    \A script \in RoundingScripts :
        CompassShown(script) =>
            /\ compass \in Range(compassPoints)
            /\ \A other \in RoundingScripts :
                  compass = CompassOf(other, bearingDeg, bearingUlps)

\* The same for the bearings that are not the double just below 22.5 degrees.
C30_VariantsAgreeElsewhere ==
    ~(bearingDeg = Deg(22, 50) /\ bearingUlps > 0) => C30_VariantsAgree

====
